---- MODULE Spec2Model ----
(***************************************************************************)
(* A model of the CRTZ dialogue-script interpreter (crtz_lang.cpp): the    *)
(* lexer, the expression engine, the declaration parser and the run loop   *)
(* with method dispatch.  Text is modelled character by character: a       *)
(* std::string is a sequence of one-character strings, so that the         *)
(* string-tagged action encoding ("SET x 3", "IF c GOTO A ELSE B",         *)
(* "STMT ...") is decoded here exactly as the code decodes it.             *)
(* Positions are 1-based; 0 stands for std::string::npos.                  *)
(***************************************************************************)
EXTENDS Integers, Sequences, FiniteSets, TLC

\* ----------------------------------------------------------------------
\* Characters and std::string helpers
\* ----------------------------------------------------------------------

Digit == {"0", "1", "2", "3", "4", "5", "6", "7", "8", "9"}

Lower == {"a", "b", "c", "d", "e", "f", "g", "h", "i", "j", "k", "l", "m",
          "n", "o", "p", "q", "r", "s", "t", "u", "v", "w", "x", "y", "z"}

Upper == {"A", "B", "C", "D", "E", "F", "G", "H", "I", "J", "K", "L", "M",
          "N", "O", "P", "Q", "R", "S", "T", "U", "V", "W", "X", "Y", "Z"}

Alpha == Lower \cup Upper

Alnum == Alpha \cup Digit

\* isspace() in the "C" locale
Space == {" ", "\t", "\n", "\r", "\f"}

\* identifier continuation of Lexer::next and tokenizeExpr: alnum, '_' or '.'
IdentCont == Alnum \cup {"_", "."}

DigitVal(c) ==
    CASE c = "0" -> 0 [] c = "1" -> 1 [] c = "2" -> 2 [] c = "3" -> 3
      [] c = "4" -> 4 [] c = "5" -> 5 [] c = "6" -> 6 [] c = "7" -> 7
      [] c = "8" -> 8 [] c = "9" -> 9

DigitChar(d) ==
    CASE d = 0 -> "0" [] d = 1 -> "1" [] d = 2 -> "2" [] d = 3 -> "3"
      [] d = 4 -> "4" [] d = 5 -> "5" [] d = 6 -> "6" [] d = 7 -> "7"
      [] d = 8 -> "8" [] d = 9 -> "9"

\* s.substr(p) with a 1-based p
From(s, p) == SubSeq(s, p, Len(s))

\* s.compare(p, Len(pat), pat) == 0, i.e. pat occurs in s at position p
StartsAt(s, p, pat) ==
    /\ p >= 1
    /\ p + Len(pat) - 1 <= Len(s)
    /\ SubSeq(s, p, p + Len(pat) - 1) = pat

\* s.find(pat, p): the first position >= p where pat occurs, 0 if none
Find(s, pat, p) ==
    LET hits == {i \in p..(Len(s) - Len(pat) + 1) : StartsAt(s, i, pat)}
    IN  IF hits = {} THEN 0 ELSE CHOOSE i \in hits : \A j \in hits : i <= j

\* s.rfind(c): the last position of the character c, 0 if none
RFindChar(s, c) ==
    LET hits == {i \in 1..Len(s) : s[i] = c}
    IN  IF hits = {} THEN 0 ELSE CHOOSE i \in hits : \A j \in hits : i >= j

\* the first position >= p whose character is not in the class cls
\* (Len(s) + 1 when every character from p on is in it)
SkipWhile(s, p, cls) ==
    LET stops == {i \in p..Len(s) : s[i] \notin cls}
    IN  IF stops = {} THEN Len(s) + 1
        ELSE CHOOSE i \in stops : \A j \in stops : i <= j

\* trim(): strip leading and trailing whitespace
trim(s) ==
    LET a == SkipWhile(s, 1, Space)
        keep == {i \in a..Len(s) : s[i] \notin Space}
        b == IF keep = {} THEN a - 1
             ELSE CHOOSE i \in keep : \A j \in keep : i >= j
    IN  SubSeq(s, a, b)

Range(s) == {s[i] : i \in DOMAIN s}

\* the value of a run of decimal digits
RECURSIVE DigitsVal(_)
DigitsVal(ds) ==
    IF ds = <<>> THEN 0
    ELSE 10 * DigitsVal(SubSeq(ds, 1, Len(ds) - 1)) + DigitVal(ds[Len(ds)])

\* std::to_string(int)
RECURSIVE NatToStr(_)
NatToStr(n) ==
    IF n < 10 THEN <<DigitChar(n)>>
    ELSE Append(NatToStr(n \div 10), DigitChar(n % 10))

to_string(n) == IF n < 0 THEN <<"-">> \o NatToStr(0 - n) ELSE NatToStr(n)

\* ----------------------------------------------------------------------
\* Expression engine
\* ----------------------------------------------------------------------

CmpOps == {<<"=", "=">>, <<"!", "=">>, <<"<">>, <<"<", "=">>, <<">">>, <<">", "=">>}

AddOps == {<<"+">>, <<"-">>}

MulOps == {<<"*">>, <<"/">>}

\* precedence with a fault: one tier for all operators
precedenceOneTier(op) == IF op \in CmpOps \cup AddOps \cup MulOps THEN 1 ELSE 0

precedence(op) ==
    IF op \in CmpOps THEN 1
    ELSE IF op \in AddOps THEN 2
    ELSE IF op \in MulOps THEN 3
    ELSE 0

isOperator(s) == s \in (CmpOps \cup AddOps \cup MulOps)

\* the two-character operators tokenizeExpr recognises
TwoCharOps == {<<"<", "=">>, <<">", "=">>, <<"=", "=">>, <<"!", "=">>}

\* strchr("+-*/()<>", c)
OneCharToks == {"+", "-", "*", "/", "(", ")", "<", ">"}

RECURSIVE tokenizeFrom(_, _, _)
tokenizeFrom(s, i, out) ==
    IF i > Len(s) THEN out
    ELSE IF s[i] \in Space THEN tokenizeFrom(s, i + 1, out)
    ELSE IF i + 1 <= Len(s) /\ SubSeq(s, i, i + 1) \in TwoCharOps
        THEN tokenizeFrom(s, i + 2, Append(out, SubSeq(s, i, i + 1)))
    ELSE IF s[i] \in OneCharToks
        THEN tokenizeFrom(s, i + 1, Append(out, <<s[i]>>))
    ELSE IF \/ s[i] \in Digit
            \/ (s[i] \in {"-", "+"} /\ i + 1 <= Len(s) /\ s[i + 1] \in Digit)
        THEN LET j == SkipWhile(s, i + 1, Digit)
             IN  tokenizeFrom(s, j, Append(out, SubSeq(s, i, j - 1)))
    ELSE IF s[i] \in Alpha \cup {"_"}
        THEN LET j == SkipWhile(s, i + 1, IdentCont)
             IN  tokenizeFrom(s, j, Append(out, SubSeq(s, i, j - 1)))
    ELSE tokenizeFrom(s, i + 1, out)

tokenizeExpr(s) == tokenizeFrom(s, 1, <<>>)

\* the operator-popping loop of infixToRPN: [out, st] after it
RECURSIVE PopHigher(_, _, _)
PopHigher(out, st, t) ==
    IF /\ st # <<>>
       /\ isOperator(st[Len(st)])
       /\ precedence(st[Len(st)]) >= precedence(t)
    THEN PopHigher(Append(out, st[Len(st)]), SubSeq(st, 1, Len(st) - 1), t)
    ELSE [out |-> out, st |-> st]

\* the loop of infixToRPN at a ")": pop to the nearest "("
RECURSIVE PopToParen(_, _)
PopToParen(out, st) ==
    IF st # <<>> /\ st[Len(st)] # <<"(">>
    THEN PopToParen(Append(out, st[Len(st)]), SubSeq(st, 1, Len(st) - 1))
    ELSE [out |-> out,
          st |-> IF st # <<>> /\ st[Len(st)] = <<"(">>
                 THEN SubSeq(st, 1, Len(st) - 1) ELSE st]

\* the final loop of infixToRPN: the stack, top first
RECURSIVE Reversed(_)
Reversed(st) ==
    IF st = <<>> THEN <<>>
    ELSE <<st[Len(st)]>> \o Reversed(SubSeq(st, 1, Len(st) - 1))

RECURSIVE rpnFrom(_, _, _, _)
rpnFrom(tokens, i, out, st) ==
    IF i > Len(tokens) THEN out \o Reversed(st)
    ELSE LET t == tokens[i] IN
         IF t = <<>> THEN rpnFrom(tokens, i + 1, out, st)
         ELSE IF isOperator(t)
             THEN LET r == PopHigher(out, st, t)
                  IN  rpnFrom(tokens, i + 1, r.out, Append(r.st, t))
         ELSE IF t = <<"(">> THEN rpnFrom(tokens, i + 1, out, Append(st, t))
         ELSE IF t = <<")">>
             THEN LET r == PopToParen(out, st)
                  IN  rpnFrom(tokens, i + 1, r.out, r.st)
         ELSE rpnFrom(tokens, i + 1, Append(out, t), st)

infixToRPN(tokens) == rpnFrom(tokens, 1, <<>>, <<>>)

\* splitDot: [first, second] around the first '.', second empty without one
splitDot(s) ==
    LET pos == Find(s, <<".">>, 1)
    IN  IF pos = 0 THEN [first |-> s, second |-> <<>>]
        ELSE [first |-> SubSeq(s, 1, pos - 1), second |-> From(s, pos + 1)]

\* std::stoll on a token that evalRPN took for a number: an optional sign
\* and the run of digits after it
stoll(t) ==
    LET signed == t[1] \in {"-", "+"}
        b == IF signed THEN 2 ELSE 1
        e == SkipWhile(t, b, Digit)
        v == DigitsVal(SubSeq(t, b, e - 1))
    IN  IF t[1] = "-" THEN 0 - v ELSE v

\* a <= b for two runs of digits of one length
RECURSIVE DigitsLeq(_, _)
DigitsLeq(a, b) ==
    IF a = <<>> THEN TRUE
    ELSE IF DigitVal(a[1]) # DigitVal(b[1]) THEN DigitVal(a[1]) < DigitVal(b[1])
    ELSE DigitsLeq(Tail(a), Tail(b))

\* std::stoll on a token that evalRPN took for a number throws
\* std::out_of_range when the digits say more than LLONG_MAX
stollThrows(t) ==
    LET b == IF t[1] \in {"-", "+"} THEN 2 ELSE 1
        ds == SubSeq(t, b, SkipWhile(t, b, Digit) - 1)
        sig == From(ds, SkipWhile(ds, 1, {"0"}))
    IN  \/ Len(sig) > 19
        \/ Len(sig) = 19 /\ ~DigitsLeq(sig, <<"9", "2", "2", "3", "3", "7", "2", "0", "3", "6", "8", "5", "4", "7", "7", "5", "8", "0", "7">>)

Abs(x) == IF x < 0 THEN 0 - x ELSE x

\* the C++ quotient a / b (b # 0), which truncates toward zero
Quot(a, b) ==
    IF (a < 0) = (b < 0) THEN Abs(a) \div Abs(b)
    ELSE 0 - (Abs(a) \div Abs(b))

\* divide with a fault: a zero divisor leaves the dividend
divideKeepsDividend(a, b) == IF b # 0 THEN Quot(a, b) ELSE a

\* the "/" of evalRPN: r = b != 0 ? a / b : 0
divide(a, b) == IF b # 0 THEN Quot(a, b) ELSE 0

B2I(b) == IF b THEN 1 ELSE 0

\* one operator of evalRPN applied to its operands
ApplyOp(t, a, b) ==
    IF t = <<"+">> THEN a + b
    ELSE IF t = <<"-">> THEN a - b
    ELSE IF t = <<"*">> THEN a * b
    ELSE IF t = <<"/">> THEN divide(a, b)
    ELSE IF t = <<"=", "=">> THEN B2I(a = b)
    ELSE IF t = <<"!", "=">> THEN B2I(a # b)
    ELSE IF t = <<"<">> THEN B2I(a < b)
    ELSE IF t = <<"<", "=">> THEN B2I(a <= b)
    ELSE IF t = <<">">> THEN B2I(a > b)
    ELSE IF t = <<">", "=">> THEN B2I(a >= b)
    ELSE 0

\* the test of evalRPN for a numeric token
IsNumTok(t) ==
    /\ t # <<>>
    /\ \/ t[1] \in Digit
       \/ (t[1] \in {"-", "+"} /\ Len(t) > 1 /\ t[2] \in Digit)

sTrue == <<"t", "r", "u", "e">>

sFalse == <<"f", "a", "l", "s", "e">>

\* fieldValue with a fault: the field is looked up in no object
fieldValueOfNothing(objects, inst, field) == 0

\* the value evalRPN pushes for a dotted name inst.field
fieldValue(objects, inst, field) ==
    IF inst \in DOMAIN objects /\ field \in DOMAIN objects[inst]
    THEN objects[inst][field]
    ELSE 0

\* Operand with a fault: a bare name is looked up in the integers first
OperandIntFirst(t, vars, boolVars, objects) ==
    IF IsNumTok(t) THEN stoll(t)
    ELSE IF t = sTrue THEN 1
    ELSE IF t = sFalse THEN 0
    ELSE LET pr == splitDot(t) IN
         IF pr.second # <<>> THEN fieldValue(objects, pr.first, pr.second)
         ELSE IF t \in DOMAIN vars THEN vars[t]
         ELSE IF t \in DOMAIN boolVars THEN B2I(boolVars[t])
         ELSE 0

\* the value evalRPN pushes for an operand token
Operand(t, vars, boolVars, objects) ==
    IF IsNumTok(t) THEN stoll(t)
    ELSE IF t = sTrue THEN 1
    ELSE IF t = sFalse THEN 0
    ELSE LET pr == splitDot(t) IN
         IF pr.second # <<>> THEN fieldValue(objects, pr.first, pr.second)
         ELSE IF t \in DOMAIN boolVars THEN B2I(boolVars[t])
         ELSE IF t \in DOMAIN vars THEN vars[t]
         ELSE 0

RECURSIVE evalFrom(_, _, _, _, _, _)
evalFrom(rpn, i, st, vars, boolVars, objects) ==
    IF i > Len(rpn) THEN (IF st = <<>> THEN 0 ELSE st[Len(st)])
    ELSE LET t == rpn[i] IN
         IF isOperator(t)
         THEN IF Len(st) < 2 THEN 0
              ELSE LET b == st[Len(st)]
                       a == st[Len(st) - 1]
                   IN  evalFrom(rpn, i + 1,
                           Append(SubSeq(st, 1, Len(st) - 2), ApplyOp(t, a, b)),
                           vars, boolVars, objects)
         ELSE evalFrom(rpn, i + 1,
                  Append(st, Operand(t, vars, boolVars, objects)),
                  vars, boolVars, objects)

\* evalRPN throws on the postfix form rpn from token i on, with n values
\* on the stack: it reaches a numeric token on which stoll throws before
\* it returns (it returns 0 at an operator that finds fewer than two
\* values)
RECURSIVE throwsFrom(_, _, _)
throwsFrom(rpn, i, n) ==
    IF i > Len(rpn) THEN FALSE
    ELSE IF isOperator(rpn[i])
        THEN (IF n < 2 THEN FALSE ELSE throwsFrom(rpn, i + 1, n - 1))
    ELSE IF IsNumTok(rpn[i]) /\ stollThrows(rpn[i]) THEN TRUE
    ELSE throwsFrom(rpn, i + 1, n + 1)

\* evalExpressionString(expr, ...) throws instead of returning a value
evalThrows(expr) == throwsFrom(infixToRPN(tokenizeExpr(expr)), 1, 0)

\* (the values met here all lie in the range of int, where the final
\* conversion (int) of the long long result changes nothing)
evalRPN(rpn, vars, boolVars, objects) ==
    evalFrom(rpn, 1, <<>>, vars, boolVars, objects)

evalExpressionString(expr, vars, boolVars, objects) ==
    evalRPN(infixToRPN(tokenizeExpr(expr)), vars, boolVars, objects)

\* an empty unordered_map
EmptyMap == <<>>

\* m[k] = v on an unordered_map: insert or overwrite
Put(m, k, v) == [x \in DOMAIN m \cup {k} |-> IF x = k THEN v ELSE m[x]]

\* ----------------------------------------------------------------------
\* Lexer
\* ----------------------------------------------------------------------

Token(k, t, n) == [kind |-> k, text |-> t, number |-> n]

\* the largest int, as std::stoi sees it
IntMaxDigits == <<"2", "1", "4", "7", "4", "8", "3", "6", "4", "7">>

\* try { number = stoi(num); } catch (...) { number = 0; } on the text of a
\* number token: an optional '-' and digits; out of the int range gives 0
stoiOrZero(num) ==
    LET neg == num # <<>> /\ num[1] = "-"
        ds == IF neg THEN Tail(num) ELSE num
        sig == From(ds, SkipWhile(ds, 1, {"0"}))
        fits == \/ Len(sig) < Len(IntMaxDigits)
                \/ Len(sig) = Len(IntMaxDigits) /\ DigitsLeq(sig, IntMaxDigits)
    IN  IF ~fits THEN 0
        ELSE IF neg THEN 0 - DigitsVal(sig) ELSE DigitsVal(sig)

\* the body of a string literal that starts at position b (after the
\* opening quote) and closes at the quote character q: [text, p] with p
\* the cursor after the literal.  Both loops of Lexer::next consume a
\* backslash together with the character after it (when there is one), so
\* a position starts a unit exactly when an even number of backslashes
\* precede it since b; the literal closes at the first q that starts a
\* unit; the second character of a pair is emitted (n as a newline), an
\* unpaired character is emitted as it is.
lexString(s, b, q) ==
    LET bs(i) == LET non == {j \in b..(i - 1) : s[j] # "\\"}
                 IN  IF non = {} THEN i - b
                     ELSE i - 1 - (CHOOSE j \in non : \A k \in non : k <= j)
        unit(i) == bs(i) % 2 = 0
        closes == {i \in b..Len(s) : s[i] = q /\ unit(i)}
        e == IF closes = {} THEN Len(s) + 1
             ELSE CHOOSE i \in closes : \A k \in closes : i <= k
        emits == {i \in b..(e - 1) : ~unit(i) \/ s[i] # "\\" \/ i = Len(s)}
        nth(k) == CHOOSE i \in emits : Cardinality({j \in emits : j <= i}) = k
        ch(i) == IF ~unit(i) /\ s[i] = "n" THEN "\n" ELSE s[i]
    IN  [text |-> [k \in 1..Cardinality(emits) |-> ch(nth(k))],
         p |-> IF e <= Len(s) THEN e + 1 ELSE e]

sPicture == <<"p", "i", "c", "t", "u", "r", "e">>

sLoad == <<"l", "o", "a", "d">>

\* the two-character symbols of Lexer::next
LexTwoChar == {<<"<", "=">>, <<">", "=">>, <<"=", "=">>, <<"!", "=">>, <<"-", ">">>}

\* Lexer::next from cursor p0: [tok, p], the token and the cursor after it
RECURSIVE LexNext(_, _)
LexNext(s, p0) ==
    LET p == SkipWhile(s, p0, Space) IN
    IF p > Len(s) THEN [tok |-> Token("EOF", <<>>, 0), p |-> p]
    ELSE IF StartsAt(s, p, <<"/", "/">>)
        THEN LexNext(s, SkipWhile(s, p, {c \in Range(s) : c # "\n"}))
    ELSE IF s[p] = "\""
        THEN LET r == lexString(s, p + 1, "\"")
             IN  [tok |-> Token("STRING", r.text, 0), p |-> r.p]
    ELSE IF s[p] \in Alpha \cup {"_"}
        THEN LET e == SkipWhile(s, p, IdentCont)
                 id == SubSeq(s, p, e - 1)
                 k == IF id = sTrue THEN "TRUE"
                      ELSE IF id = sFalse THEN "FALSE"
                      ELSE IF id = sPicture THEN "PICTURE"
                      ELSE IF id = sLoad THEN "LOAD"
                      ELSE "IDENT"
             IN  [tok |-> Token(k, id, 0), p |-> e]
    ELSE IF \/ s[p] \in Digit
            \/ (s[p] = "-" /\ p + 1 <= Len(s) /\ s[p + 1] \in Digit)
        THEN LET b == IF s[p] = "-" THEN p + 1 ELSE p
                 e == SkipWhile(s, b, Digit)
                 num == SubSeq(s, p, e - 1)
             IN  [tok |-> Token("NUMBER", num, stoiOrZero(num)), p |-> e]
    ELSE IF s[p] = "'"
        THEN LET r == lexString(s, p + 1, "'")
             IN  [tok |-> Token("STRING_DEC", r.text, 0), p |-> r.p]
    ELSE IF p + 1 <= Len(s) /\ SubSeq(s, p, p + 1) \in LexTwoChar
        THEN [tok |-> Token("SYM", SubSeq(s, p, p + 1), 0), p |-> p + 2]
    ELSE [tok |-> Token("SYM", <<s[p]>>, 0), p |-> p + 1]

\* the nested calls of Lexer::next the stack holds: next() returns the
\* result of a call of itself for every comment it skips, so a call of
\* next() before n comments in a row is n calls deep
MaxLexDepth == 3

\* the comments the call of next() at cursor p0 skips, each in one more
\* nested call of next()
RECURSIVE nextDepth(_, _)
nextDepth(s, p0) ==
    LET p == SkipWhile(s, p0, Space) IN
    IF p <= Len(s) /\ StartsAt(s, p, <<"/", "/">>)
    THEN 1 + nextDepth(s, SkipWhile(s, p, {c \in Range(s) : c # "\n"}))
    ELSE 0

\* ----------------------------------------------------------------------
\* Program model and parser
\* ----------------------------------------------------------------------

\* Program as the Parser constructs it: every table empty
EmptyProgram ==
    [npc |-> <<>>, desc |-> <<>>,
     vars |-> EmptyMap, boolVars |-> EmptyMap, stringVars |-> EmptyMap,
     nodes |-> EmptyMap, entry |-> <<>>,
     classes |-> EmptyMap, objects |-> EmptyMap, instanceClass |-> EmptyMap,
     rooms |-> EmptyMap, currentRoom |-> <<>>]

\* Node, ClassDef and Room as their parse functions start them
NewNode(name) == [name |-> name, text |-> <<>>, choices |-> <<>>, actions |-> <<>>]

NewClassDef(name) ==
    [name |-> name, fields |-> EmptyMap, methods |-> EmptyMap,
     methodParams |-> EmptyMap]

NewRoom(name) ==
    [name |-> name, description |-> <<>>, exits |-> EmptyMap, items |-> <<>>,
     npcs |-> <<>>]

\* Lexer::next is a function of the text and the cursor alone and the
\* parser reaches the lexer through consume() only, so the tokens the
\* parser sees are the successive results of next(): LexN(s, p, n) is the
\* list of the next n of them from cursor p on, each with the cursor after
\* it (the list is built by halves to keep the nesting shallow)
RECURSIVE LexN(_, _, _)
RECURSIVE LexMore(_, _, _)
LexN(s, p, n) ==
    IF n <= 1 THEN <<LexNext(s, p)>>
    ELSE LexMore(s, LexN(s, p, n \div 2), n - n \div 2)

LexMore(s, first, n) == first \o LexN(s, first[Len(first)].p, n)

\* the i-th result of next(); EOF is returned again once reached
TokAt(toks, i) == IF i > Len(toks) THEN toks[Len(toks)] ELSE toks[i]

\* Parser state: i counts the calls of next() so far, p is the lexer
\* cursor, tk the one token of lookahead, prog the program built so far
\* and err the diagnostics written to cerr; the rest are the locals of
\* the parse function under way: the Node, ClassDef or Room being built,
\* the text a token loop accumulates (acc), a method's parameter names
\* (params) and a list of statements or show texts (acts)
\* Parser::Parser: tk = lex.next()
NewParser(toks) ==
    [i |-> 1, p |-> toks[1].p, tk |-> toks[1].tok, prog |-> EmptyProgram,
     err |-> <<>>, node |-> NewNode(<<>>), cdef |-> NewClassDef(<<>>),
     room |-> NewRoom(<<>>), acc |-> <<>>, params |-> <<>>, acts |-> <<>>]

\* k calls of Parser::consume
Skip(toks, ps, k) ==
    [ps EXCEPT !.i = @ + k, !.tk = TokAt(toks, ps.i + k).tok,
               !.p = TokAt(toks, ps.i + k).p]

\* Parser::consume
Consume(toks, ps) == Skip(toks, ps, 1)

\* what tk will be after k calls of consume
Peek(toks, ps, k) == TokAt(toks, ps.i + k).tok

\* a write to cerr
Diag(ps, tag) == [ps EXCEPT !.err = Append(@, tag)]

\* the token t is the symbol x / the identifier x
SymTok(t, x) == t.kind = "SYM" /\ t.text = x

IdentTok(t, x) == t.kind = "IDENT" /\ t.text = x

IsSym(ps, x) == SymTok(ps.tk, x)

\* Parser::expectSym
expectSym(toks, ps, x) ==
    IF IsSym(ps, x) THEN Consume(toks, ps) ELSE Diag(ps, "expected symbol")

\* the loops "while tk is none of the symbols in stops and not EOF:
\* text += tk.text; consume()", the text accumulated in acc
RECURSIVE CollectMore(_, _, _)
CollectMore(toks, ps, stops) ==
    IF (ps.tk.kind = "SYM" /\ ps.tk.text \in stops) \/ ps.tk.kind = "EOF"
    THEN ps
    ELSE CollectMore(toks, [Consume(toks, ps) EXCEPT !.acc = @ \o ps.tk.text], stops)

Collect(toks, ps, stops) == CollectMore(toks, [ps EXCEPT !.acc = <<>>], stops)

\* Parser::parseNpc and Parser::parseDesc (field is "npc" or "desc")
parseNpcDesc(toks, ps, field) ==
    LET t1 == Peek(toks, ps, 1) IN
    IF t1.kind = "STRING"
    THEN expectSym(toks, Skip(toks, [ps EXCEPT !.prog[field] = t1.text], 2), <<";">>)
    ELSE Diag(Skip(toks, ps, 1), "requires string")

\* varDeclInt with a fault: the initialiser is evaluated against an empty
\* integer table, as if nothing had been declared before it
varDeclIntAlone(toks, ps, name) ==
    [expectSym(toks, ps, <<";">>) EXCEPT !.prog.vars =
        Put(@, name, evalExpressionString(ps.acc, EmptyMap, ps.prog.boolVars,
                                          EmptyMap))]

\* parseVarDecl, an int with an initialiser, after the loop over its
\* tokens: the expression is evaluated with no objects
varDeclInt(toks, ps, name) ==
    [expectSym(toks, ps, <<";">>) EXCEPT !.prog.vars =
        Put(@, name, evalExpressionString(ps.acc, ps.prog.vars, ps.prog.boolVars,
                                          EmptyMap))]

\* Parser::parseVarDecl
parseVarDecl(toks, ps) ==
    LET type == ps.tk.text
        t1 == Peek(toks, ps, 1)
        t2 == Peek(toks, ps, 2)
        t3 == Peek(toks, ps, 3)
    IN
    IF t1.kind # "IDENT" THEN Diag(Skip(toks, ps, 1), "expects identifier")
    ELSE IF SymTok(t2, <<"=">>)
    THEN IF type = <<"s", "t", "r", "i", "n", "g">>
         THEN IF t3.kind \in {"STRING_DEC", "STRING"}
              THEN [expectSym(toks, Skip(toks, ps, 4), <<";">>) EXCEPT
                        !.prog.stringVars = Put(@, t1.text, t3.text)]
              ELSE Diag(Skip(toks, ps, 3), "requires string literal")
         ELSE IF type = <<"m", "a", "t", "c", "h">>
         THEN IF t3.kind \in {"TRUE", "FALSE"}
              THEN [expectSym(toks, Skip(toks, ps, 4), <<";">>) EXCEPT
                        !.prog.boolVars = Put(@, t1.text, t3.kind = "TRUE")]
              ELSE Diag(Skip(toks, ps, 3), "requires true or false")
         ELSE varDeclInt(toks, Collect(toks, Skip(toks, ps, 3), {<<";">>}), t1.text)
    ELSE IF type = <<"s", "t", "r", "i", "n", "g">>
         THEN expectSym(toks, [Skip(toks, ps, 2) EXCEPT
                                  !.prog.stringVars = Put(@, t1.text, <<>>)], <<";">>)
    ELSE IF type = <<"m", "a", "t", "c", "h">>
         THEN expectSym(toks, [Skip(toks, ps, 2) EXCEPT
                                  !.prog.boolVars = Put(@, t1.text, FALSE)], <<";">>)
    ELSE expectSym(toks, [Skip(toks, ps, 2) EXCEPT
                             !.prog.vars = Put(@, t1.text, 0)], <<";">>)

\* Parser::parseNewInstance
parseNewInstance(toks, ps) ==
    LET className == Peek(toks, ps, 1)
        instName == Peek(toks, ps, 2)
    IN
    IF className.kind # "IDENT" THEN Diag(Skip(toks, ps, 1), "new expects class name")
    ELSE IF instName.kind # "IDENT"
    THEN Diag(Skip(toks, ps, 2), "new expects instance name")
    ELSE IF className.text \notin DOMAIN ps.prog.classes
    THEN Diag(expectSym(toks, Skip(toks, ps, 3), <<";">>), "unknown class for new")
    ELSE [expectSym(toks, Skip(toks, ps, 3), <<";">>) EXCEPT
            !.prog.objects = Put(@, instName.text,
                                 ps.prog.classes[className.text].fields),
            !.prog.instanceClass = Put(@, instName.text, className.text)]

\* parseClass, the parameter-list loop of a method
RECURSIVE parseParams(_, _)
parseParams(toks, ps) ==
    IF IsSym(ps, <<")">>) \/ ps.tk.kind = "EOF" THEN ps
    ELSE IF ps.tk.kind = "IDENT"
    THEN parseParams(toks,
             [Skip(toks, ps, IF SymTok(Peek(toks, ps, 1), <<",">>) THEN 2 ELSE 1)
                 EXCEPT !.params = Append(@, ps.tk.text)])
    ELSE parseParams(toks, Consume(toks, ps))

\* parseClass, the end of one statement of a method body: the
\* concatenated texts of its tokens are kept, tagged "STMT ", unless they
\* trim to nothing; a ';' is consumed
methodStatement(toks, ps) ==
    [(IF IsSym(ps, <<";">>) THEN Consume(toks, ps) ELSE ps) EXCEPT !.acts =
        IF trim(ps.acc) # <<>> THEN Append(@, <<"S", "T", "M", "T", " ">> \o trim(ps.acc)) ELSE @]

\* parseClass, the method-body loop and what follows it
RECURSIVE parseMethodBody(_, _, _)
parseMethodBody(toks, ps, mname) ==
    IF IsSym(ps, <<"}">>) \/ ps.tk.kind = "EOF"
    THEN [expectSym(toks, ps, <<"}">>) EXCEPT
            !.cdef.methods = Put(@, mname, ps.acts),
            !.cdef.methodParams = Put(@, mname, ps.params)]
    ELSE parseMethodBody(toks,
             methodStatement(toks, Collect(toks, ps, {<<";">>, <<"}">>})), mname)

\* parseClass, a method after its parameter list
classMethod(toks, ps, mname) ==
    IF ~IsSym(ps, <<"{">>) THEN Diag(ps, "expected { for method body")
    ELSE parseMethodBody(toks, [Consume(toks, ps) EXCEPT !.acts = <<>>], mname)

\* parseClass, an int field with an initialiser, after the loop over its
\* tokens: the expression is evaluated with no objects
classField(toks, ps, fname) ==
    [expectSym(toks, ps, <<";">>) EXCEPT !.cdef.fields =
        Put(@, fname, evalExpressionString(ps.acc, ps.prog.vars, ps.prog.boolVars,
                                           EmptyMap))]

\* parseClass, one iteration of the class-body loop
parseClassMember(toks, ps) ==
    LET t1 == Peek(toks, ps, 1)
        t2 == Peek(toks, ps, 2)
    IN
    IF ps.tk.kind # "IDENT" THEN Consume(toks, ps)
    ELSE IF ps.tk.text = <<"i", "n", "t">>
    THEN IF t1.kind # "IDENT"
         THEN Consume(toks, Diag(Skip(toks, ps, 1), "field expects identifier"))
         ELSE IF SymTok(t2, <<"=">>)
         THEN classField(toks, Collect(toks, Skip(toks, ps, 3), {<<";">>}), t1.text)
         ELSE [expectSym(toks, Skip(toks, ps, 2), <<";">>) EXCEPT
                  !.cdef.fields = Put(@, t1.text, 0)]
    ELSE IF ps.tk.text = <<"v", "o", "i", "d">>
    THEN IF t1.kind # "IDENT"
         THEN Diag(Skip(toks, ps, 1), "method expects a name")
         ELSE classMethod(toks,
                  expectSym(toks,
                      parseParams(toks,
                          [Skip(toks,
                                IF SymTok(t2, <<"(">>) THEN ps
                                ELSE Diag(ps, "expected ( after method name"), 3)
                              EXCEPT !.params = <<>>]),
                      <<")">>),
                  t1.text)
    ELSE Consume(toks, Diag(ps, "unknown class member"))

RECURSIVE parseClassBody(_, _)
parseClassBody(toks, ps) ==
    IF IsSym(ps, <<"}">>) \/ ps.tk.kind = "EOF" THEN ps
    ELSE parseClassBody(toks, parseClassMember(toks, ps))

\* parseClass: prog.classes[className] = cdef
storeClass(ps) == [ps EXCEPT !.prog.classes = Put(@, ps.cdef.name, ps.cdef)]

\* Parser::parseClass
parseClass(toks, ps) ==
    LET className == Peek(toks, ps, 1) IN
    IF className.kind # "IDENT" THEN Diag(Skip(toks, ps, 1), "class expects a name")
    ELSE IF ~SymTok(Peek(toks, ps, 2), <<"{">>)
    THEN Diag(Skip(toks, ps, 2), "expected { after class name")
    ELSE storeClass(
             expectSym(toks,
                 parseClassBody(toks, [Skip(toks, ps, 3) EXCEPT
                                          !.cdef = NewClassDef(className.text)]),
                 <<"}">>))

\* parseNode "show": the strings after the first, each behind a ','
RECURSIVE parseShowRest(_, _)
parseShowRest(toks, ps) ==
    IF ~IsSym(ps, <<",">>) THEN ps
    ELSE IF Peek(toks, ps, 1).kind = "STRING"
    THEN parseShowRest(toks, [Skip(toks, ps, 2) EXCEPT
                                 !.acts = Append(@, Peek(toks, ps, 1).text)])
    ELSE Diag(Skip(toks, ps, 1), "show expects string after comma")

\* parseNode "show": one "SHOW " action for each text
showActions(ps) ==
    [ps EXCEPT !.node.actions =
        @ \o [k \in 1..Len(ps.acts) |-> <<"S", "H", "O", "W", " ">> \o ps.acts[k]]]

\* parseNode "choice" from the target on
choiceTarget(toks, ps, id, text) ==
    IF ps.tk.kind # "IDENT" THEN Diag(ps, "choice target expected")
    ELSE [expectSym(toks, Consume(toks, ps), <<";">>) EXCEPT !.node.choices =
             Append(@, [id |-> id, text |-> text, target |-> ps.tk.text])]

\* parseNode "choice" from the text on: the text, then "->", or "-" and
\* an empty symbol, or neither
choiceText(toks, ps, id) ==
    LET t1 == Peek(toks, ps, 1)
        t2 == Peek(toks, ps, 2)
    IN
    IF ps.tk.kind # "STRING" THEN Diag(ps, "choice text string expected")
    ELSE choiceTarget(toks,
             Skip(toks, ps, IF SymTok(t1, <<"-", ">">>) THEN 2
                            ELSE IF SymTok(t1, <<"-">>)
                                THEN (IF SymTok(t2, <<>>) THEN 3 ELSE 2)
                            ELSE 1),
             id, ps.tk.text)

\* parseNode "choice"
parseChoice(toks, ps) ==
    LET id == Peek(toks, ps, 1) IN
    IF id.kind # "NUMBER"
    THEN Consume(toks, Diag(Skip(toks, ps, 1), "choice id expected"))
    ELSE choiceText(toks, expectSym(toks, Skip(toks, ps, 2), <<":">>), id.number)

\* parseNode "set" and "signal" after the loop over the tokens of the
\* expression: the action is the prefix and the concatenated token texts
exprAction(toks, ps, prefix) ==
    [expectSym(toks, ps, <<";">>) EXCEPT !.node.actions = Append(@, prefix \o ps.acc)]

\* parseNode "set"
parseSet(toks, ps) ==
    LET t1 == Peek(toks, ps, 1)
        named == t1.kind = "IDENT"
        t2 == Peek(toks, ps, IF named THEN 2 ELSE 1)
        ps1 == IF named THEN Skip(toks, ps, 2)
               ELSE Diag(Skip(toks, ps, 1), "set expected identifier")
    IN  exprAction(toks,
            Collect(toks,
                IF SymTok(t2, <<"=">>) THEN Consume(toks, ps1)
                ELSE Diag(ps1, "expected = after set var"),
                {<<";">>}),
            <<"S", "E", "T", " ">> \o (IF named THEN t1.text ELSE <<>>) \o <<" ">>)

\* parseNode "signal"
parseSignal(toks, ps) ==
    LET name == Peek(toks, ps, 1) IN
    IF name.kind # "IDENT" THEN Diag(Skip(toks, ps, 1), "signal name expected")
    ELSE exprAction(toks,
             Collect(toks,
                 Skip(toks, ps, IF SymTok(Peek(toks, ps, 2), <<"=">>) THEN 3 ELSE 2),
                 {<<";">>}),
             <<"S", "I", "G", "N", "A", "L", " ">> \o name.text \o <<" ">>)

\* parseNode "if", the end: the action is "IF cond GOTO target", with
\* " ELSE elseTarget" when there is one
ifAction(toks, ps, target, elseTarget) ==
    [expectSym(toks, ps, <<";">>) EXCEPT !.node.actions =
        Append(@, <<"I", "F", " ">> \o ps.acc \o <<" ", "G", "O", "T", "O", " ">> \o target \o
                  (IF elseTarget = <<>> THEN <<>> ELSE <<" ", "E", "L", "S", "E", " ">> \o elseTarget))]

\* parseNode "if" from the target on
ifTarget(toks, ps) ==
    LET t1 == Peek(toks, ps, 1)
        t2 == Peek(toks, ps, 2)
        hasGoto == IdentTok(t2, <<"g", "o", "t", "o">>)
        t3 == Peek(toks, ps, IF hasGoto THEN 3 ELSE 2)
        ps1 == IF hasGoto THEN Skip(toks, ps, 3)
               ELSE Diag(Skip(toks, ps, 2), "else expects goto")
    IN
    IF ps.tk.kind # "IDENT" THEN Diag(ps, "goto target expected")
    ELSE IF ~IdentTok(t1, <<"e", "l", "s", "e">>)
    THEN ifAction(toks, Consume(toks, ps), ps.tk.text, <<>>)
    ELSE IF t3.kind = "IDENT"
    THEN ifAction(toks, Consume(toks, ps1), ps.tk.text, t3.text)
    ELSE ifAction(toks, Diag(ps1, "else goto target expected"), ps.tk.text, <<>>)

\* parseNode "if" after the ')': "goto" is consumed or missed
ifGoto(toks, ps) ==
    ifTarget(toks, IF IdentTok(ps.tk, <<"g", "o", "t", "o">>) THEN Consume(toks, ps)
                   ELSE Diag(ps, "if expects goto"))

\* parseNode "if": the condition is the concatenated token texts up to the
\* first ')' token
parseIf(toks, ps) ==
    ifGoto(toks,
        expectSym(toks,
            Collect(toks,
                IF SymTok(Peek(toks, ps, 1), <<"(">>) THEN Skip(toks, ps, 2)
                ELSE Diag(Skip(toks, ps, 1), "if requires ("),
                {<<")">>}),
            <<")">>))

\* parseNode, a statement that starts with no keyword, after the loop
\* over its tokens: a ';' is consumed and the concatenated token texts
\* are kept, tagged "STMT ", unless they trim to nothing
rawStatement(toks, ps) ==
    [(IF IsSym(ps, <<";">>) THEN Consume(toks, ps) ELSE ps) EXCEPT !.node.actions =
        IF trim(ps.acc) # <<>> THEN Append(@, <<"S", "T", "M", "T", " ">> \o trim(ps.acc)) ELSE @]

\* parseNode, one iteration of the node-body loop
parseNodeMember(toks, ps) ==
    LET kw == ps.tk.text
        t1 == Peek(toks, ps, 1)
    IN
    IF ps.tk.kind # "IDENT" THEN Consume(toks, ps)
    ELSE IF kw = <<"l", "i", "n", "e">>
    THEN IF t1.kind = "STRING"
         THEN [expectSym(toks, Skip(toks, ps, 2), <<";">>) EXCEPT !.node.text = t1.text]
         ELSE expectSym(toks, Skip(toks, ps, 1), <<";">>)
    ELSE IF kw = <<"s", "h", "o", "w">>
    THEN IF t1.kind # "STRING"
         THEN Diag(Skip(toks, ps, 1), "show requires string literal")
         ELSE showActions(
                  expectSym(toks,
                      parseShowRest(toks, [Skip(toks, ps, 2) EXCEPT !.acts = <<t1.text>>]),
                      <<";">>))
    ELSE IF kw = <<"c", "h", "o", "i", "c", "e">> THEN parseChoice(toks, ps)
    ELSE IF kw = <<"s", "e", "t">> THEN parseSet(toks, ps)
    ELSE IF kw = <<"s", "i", "g", "n", "a", "l">> THEN parseSignal(toks, ps)
    ELSE IF kw = <<"i", "f">> THEN parseIf(toks, ps)
    ELSE IF kw = <<"g", "o", "t", "o">>
    THEN IF t1.kind # "IDENT"
         THEN Diag(Skip(toks, ps, 1), "goto target expected")
         ELSE [expectSym(toks, Skip(toks, ps, 2), <<";">>) EXCEPT
                  !.node.actions = Append(@, <<"G", "O", "T", "O", " ">> \o t1.text)]
    ELSE IF kw = <<"e", "n", "d">>
    THEN [expectSym(toks, Skip(toks, ps, 1), <<";">>) EXCEPT
             !.node.actions = Append(@, <<"E", "N", "D">>)]
    ELSE rawStatement(toks, Collect(toks, ps, {<<";">>}))

RECURSIVE parseNodeBody(_, _)
parseNodeBody(toks, ps) ==
    IF IsSym(ps, <<"}">>) \/ ps.tk.kind = "EOF" THEN ps
    ELSE parseNodeBody(toks, parseNodeMember(toks, ps))

\* parseNode: prog.nodes[nodename] = node
storeNode(ps) == [ps EXCEPT !.prog.nodes = Put(@, ps.node.name, ps.node)]

\* parseNode after the name: the first node named is the entry, whether
\* or not a '{' follows
nodeNamed(toks, ps, nodename) ==
    IF ~IsSym(ps, <<"{">>) THEN Diag(ps, "expected { after node name")
    ELSE storeNode(
             expectSym(toks,
                 parseNodeBody(toks, [Consume(toks, ps) EXCEPT
                                         !.node = NewNode(nodename)]),
                 <<"}">>))

\* Parser::parseNode
parseNode(toks, ps) ==
    LET nodename == Peek(toks, ps, 1) IN
    IF nodename.kind # "IDENT"
    THEN Consume(toks, Diag(Skip(toks, ps, 1), "node expects name"))
    ELSE nodeNamed(toks,
             [Skip(toks, ps, 2) EXCEPT
                 !.prog.entry = IF @ = <<>> THEN nodename.text ELSE @],
             nodename.text)

\* parseRoom, one iteration of the room-body loop
parseRoomMember(toks, ps) ==
    LET kw == ps.tk.text
        t1 == Peek(toks, ps, 1)
        t2 == Peek(toks, ps, 2)
    IN
    IF ps.tk.kind # "IDENT" THEN Consume(toks, ps)
    ELSE IF kw = <<"d", "e", "s", "c">> /\ t1.kind = "STRING"
    THEN [expectSym(toks, Skip(toks, ps, 2), <<";">>) EXCEPT
             !.room.description = t1.text]
    ELSE IF kw = <<"e", "x", "i", "t">> /\ t1.kind = "IDENT" /\ t2.kind = "IDENT"
    THEN [expectSym(toks, Skip(toks, ps, 3), <<";">>) EXCEPT
             !.room.exits = Put(@, t1.text, t2.text)]
    ELSE IF kw = <<"e", "x", "i", "t">> /\ t1.kind = "IDENT" THEN Skip(toks, ps, 2)
    ELSE IF kw = <<"i", "t", "e", "m">> /\ t1.kind = "IDENT"
    THEN [expectSym(toks, Skip(toks, ps, 2), <<";">>) EXCEPT
             !.room.items = Append(@, t1.text)]
    ELSE IF kw = <<"n", "p", "c">> /\ t1.kind = "IDENT"
    THEN [expectSym(toks, Skip(toks, ps, 2), <<";">>) EXCEPT
             !.room.npcs = Append(@, t1.text)]
    ELSE Consume(toks, ps)

RECURSIVE parseRoomBody(_, _)
parseRoomBody(toks, ps) ==
    IF IsSym(ps, <<"}">>) \/ ps.tk.kind = "EOF" THEN ps
    ELSE parseRoomBody(toks, parseRoomMember(toks, ps))

\* parseRoom: prog.rooms[roomName] = room, and the first room parsed is
\* the current one
storeRoom(ps) ==
    [ps EXCEPT !.prog.rooms = Put(@, ps.room.name, ps.room),
               !.prog.currentRoom = IF @ = <<>> THEN ps.room.name ELSE @]

\* Parser::parseRoom
parseRoom(toks, ps) ==
    LET roomName == Peek(toks, ps, 1) IN
    IF roomName.kind # "IDENT" THEN Diag(Skip(toks, ps, 1), "room expects a name")
    ELSE IF ~SymTok(Peek(toks, ps, 2), <<"{">>)
    THEN Diag(Skip(toks, ps, 2), "expected { after room name")
    ELSE storeRoom(
             expectSym(toks,
                 parseRoomBody(toks, [Skip(toks, ps, 3) EXCEPT
                                         !.room = NewRoom(roomName.text)]),
                 <<"}">>))

\* Parser::parsePicture: picture name [ size ] = load ( "folder" ) ;
\* checked token by token, each miss a diagnostic and a return; nothing is
\* stored in the program
RECURSIVE parsePictureFrom(_, _, _)
parsePictureFrom(toks, ps, want) ==
    IF want = <<>> THEN expectSym(toks, ps, <<";">>)
    ELSE IF (IF want[1].kind = "SYM" THEN IsSym(ps, want[1].text)
             ELSE ps.tk.kind = want[1].kind)
    THEN parsePictureFrom(toks, Consume(toks, ps), Tail(want))
    ELSE Diag(ps, "picture: unexpected token")

PictureShape ==
    <<[kind |-> "IDENT"], [kind |-> "SYM", text |-> <<"[">>], [kind |-> "NUMBER"],
      [kind |-> "SYM", text |-> <<"]">>], [kind |-> "SYM", text |-> <<"=">>],
      [kind |-> "LOAD"], [kind |-> "SYM", text |-> <<"(">>], [kind |-> "STRING"],
      [kind |-> "SYM", text |-> <<")">>]>>

parsePicture(toks, ps) == parsePictureFrom(toks, Consume(toks, ps), PictureShape)

\* one iteration of the loop of Parser::parse (tk is not EOF)
\* parseTop with a fault: an unknown identifier is skipped together with
\* the token after it
parseTopSkipsTwo(toks, ps) ==
    IF ps.tk.kind \notin {"IDENT", "PICTURE"} THEN Consume(toks, ps)
    ELSE IF ps.tk.text = <<"n", "p", "c">> THEN parseNpcDesc(toks, ps, "npc")
    ELSE IF ps.tk.text = <<"d", "e", "s", "c">> THEN parseNpcDesc(toks, ps, "desc")
    ELSE IF ps.tk.text \in {<<"i", "n", "t">>, <<"s", "t", "r", "i", "n", "g">>, <<"m", "a", "t", "c", "h">>} THEN parseVarDecl(toks, ps)
    ELSE IF ps.tk.text = <<"n", "o", "d", "e">> THEN parseNode(toks, ps)
    ELSE IF ps.tk.text = <<"c", "l", "a", "s", "s">> THEN parseClass(toks, ps)
    ELSE IF ps.tk.text = <<"n", "e", "w">> THEN parseNewInstance(toks, ps)
    ELSE IF ps.tk.text = <<"r", "o", "o", "m">> THEN parseRoom(toks, ps)
    ELSE IF ps.tk.kind = "PICTURE" THEN parsePicture(toks, ps)
    ELSE Skip(toks, Diag(ps, "unknown top-level keyword"), 2)

parseTop(toks, ps) ==
    IF ps.tk.kind \notin {"IDENT", "PICTURE"} THEN Consume(toks, ps)
    ELSE IF ps.tk.text = <<"n", "p", "c">> THEN parseNpcDesc(toks, ps, "npc")
    ELSE IF ps.tk.text = <<"d", "e", "s", "c">> THEN parseNpcDesc(toks, ps, "desc")
    ELSE IF ps.tk.text \in {<<"i", "n", "t">>, <<"s", "t", "r", "i", "n", "g">>, <<"m", "a", "t", "c", "h">>} THEN parseVarDecl(toks, ps)
    ELSE IF ps.tk.text = <<"n", "o", "d", "e">> THEN parseNode(toks, ps)
    ELSE IF ps.tk.text = <<"c", "l", "a", "s", "s">> THEN parseClass(toks, ps)
    ELSE IF ps.tk.text = <<"n", "e", "w">> THEN parseNewInstance(toks, ps)
    ELSE IF ps.tk.text = <<"r", "o", "o", "m">> THEN parseRoom(toks, ps)
    ELSE IF ps.tk.kind = "PICTURE" THEN parsePicture(toks, ps)
    ELSE Consume(toks, Diag(ps, "unknown top-level keyword"))

\* ----------------------------------------------------------------------
\* Runtime helpers
\* ----------------------------------------------------------------------

\* the name run() gives the player (main)
playerName == <<"A", "n", "d", "r", "e", "w">>

\* a depth of nested method calls the stack cannot hold: a method that
\* calls itself without end overflows the stack of the C++ program
MaxCallDepth == 3

\* splitArgs: the pieces between the commas at parenthesis depth 0, each
\* trimmed, the empty ones dropped
RECURSIVE splitArgsFrom(_, _, _, _, _)
splitArgsFrom(s, i, cur, depth, out) ==
    IF i > Len(s)
    THEN IF cur # <<>> THEN Append(out, trim(cur)) ELSE out
    ELSE IF s[i] = "(" THEN splitArgsFrom(s, i + 1, Append(cur, s[i]), depth + 1, out)
    ELSE IF s[i] = ")" THEN splitArgsFrom(s, i + 1, Append(cur, s[i]), depth - 1, out)
    ELSE IF s[i] = "," /\ depth = 0
        THEN splitArgsFrom(s, i + 1, <<>>, depth, Append(out, trim(cur)))
    ELSE splitArgsFrom(s, i + 1, Append(cur, s[i]), depth, out)

splitArgs(s) == SelectSeq(splitArgsFrom(s, 1, <<>>, 0, <<>>), LAMBDA x : x # <<>>)

\* the decoding of "SET name expr" and "SIGNAL name expr" after the tag:
\* the name runs to the first whitespace, the expression starts after the
\* whitespace that follows
NameAndExpr(rest) ==
    LET e == SkipWhile(rest, 1, Range(rest) \ Space)
    IN  [name |-> SubSeq(rest, 1, e - 1),
         expr |-> From(rest, SkipWhile(rest, e, Space))]

\* the decoding of "IF cond GOTO target[ ELSE elseTarget]"; gpos = 0 when
\* the action holds no " GOTO "
DecodeIf(act) ==
    LET gpos == Find(act, <<" ", "G", "O", "T", "O", " ">>, 1)
        rest == From(act, gpos + 6)
        epos == Find(rest, <<" ", "E", "L", "S", "E", " ">>, 1)
    IN  [gpos |-> gpos,
         cond |-> SubSeq(act, 4, gpos - 1),
         target |-> IF epos # 0 THEN SubSeq(rest, 1, epos - 1) ELSE rest,
         elseTarget |-> IF epos # 0 THEN From(rest, epos + 6) ELSE <<>>]

\* the decoding of a raw statement as a method call inst.method(args):
\* isCall is the test dotp != npos && paren != npos && paren > dotp
DecodeCall(st) ==
    LET dotp == Find(st, <<".">>, 1)
        paren == Find(st, <<"(">>, 1)
        rparen == RFindChar(st, ")")
    IN  [isCall |-> dotp # 0 /\ paren # 0 /\ paren > dotp,
         inst |-> SubSeq(st, 1, dotp - 1),
         method |-> SubSeq(st, dotp + 1, paren - 1),
         argsraw |-> IF rparen # 0 /\ rparen > paren
                     THEN SubSeq(st, paren + 1, rparen - 1)
                     ELSE From(st, paren + 1)]

\* the argument values of a call: each argument expression evaluated
ArgValues(argsraw, vars, boolVars, objects) ==
    LET a == splitArgs(argsraw)
    IN  [i \in 1..Len(a) |-> evalExpressionString(a[i], vars, boolVars, objects)]

\* the text print(...) writes, or <<>> (nothing written) when the
\* statement has no "(" before a ")"
PrintLine(st, vars, boolVars, objects) ==
    LET p == Find(st, <<"(">>, 1)
        q == RFindChar(st, ")")
        inner == SubSeq(st, p + 1, q - 1)
    IN  IF ~(p # 0 /\ q # 0 /\ q > p) THEN <<>>
        ELSE IF Len(inner) >= 2 /\ inner[1] = "\"" /\ inner[Len(inner)] = "\""
            THEN <<SubSeq(inner, 2, Len(inner) - 1)>>
        ELSE <<IF evalExpressionString(inner, vars, boolVars, objects) # 0
               THEN sTrue ELSE sFalse>>

\* ShowValue with a fault: an integer variable is read from the table of
\* the declarations
ShowValueDeclared(varName, prog, vars, objects) ==
    IF varName \in DOMAIN prog.vars THEN to_string(prog.vars[varName]) ELSE <<"0">>

\* the value a SHOW action substitutes for ${varName}
ShowValue(varName, prog, vars, objects) ==
    IF varName \in DOMAIN prog.stringVars THEN prog.stringVars[varName]
    ELSE IF varName \in DOMAIN prog.boolVars
        THEN (IF prog.boolVars[varName] THEN sTrue ELSE sFalse)
    ELSE IF varName \in DOMAIN vars THEN to_string(vars[varName])
    ELSE LET pr == splitDot(varName) IN
         IF /\ pr.second # <<>>
            /\ pr.first \in DOMAIN objects
            /\ pr.second \in DOMAIN objects[pr.first]
         THEN to_string(objects[pr.first][pr.second])
         ELSE <<"0">>

\* showOnce with a fault: the search resumes where the marker was found
showOnceStays(text, pos, prog, vars, objects) ==
    LET p == Find(text, <<"$", "{">>, pos)
        end == Find(text, <<"}">>, p + 2)
    IN  IF p = 0 \/ end = 0 THEN [more |-> FALSE, text |-> text, pos |-> pos]
        ELSE [more |-> TRUE,
              text |-> SubSeq(text, 1, p - 1)
                           \o ShowValue(SubSeq(text, p + 2, end - 1), prog, vars, objects)
                           \o From(text, end + 1),
              pos |-> p]

\* one round of the substitution loop of a SHOW action, entered with the
\* search position pos: more tells that the body ran (a marker "${" with
\* a "}" after it was found, replaced by its value, and the search
\* position moved past the value)
showOnce(text, pos, prog, vars, objects) ==
    LET p == Find(text, <<"$", "{">>, pos)
        end == Find(text, <<"}">>, p + 2)
    IN  IF p = 0 \/ end = 0 THEN [more |-> FALSE, text |-> text, pos |-> pos]
        ELSE [more |-> TRUE,
              text |-> SubSeq(text, 1, p - 1)
                           \o ShowValue(SubSeq(text, p + 2, end - 1), prog, vars, objects)
                           \o From(text, end + 1),
              pos |-> p + Len(ShowValue(SubSeq(text, p + 2, end - 1), prog, vars, objects))]

\* the substitution loop of a SHOW action from position pos on
RECURSIVE showFrom(_, _, _, _, _)
showFrom(text, pos, prog, vars, objects) ==
    IF showOnce(text, pos, prog, vars, objects).more
    THEN showFrom(showOnce(text, pos, prog, vars, objects).text,
                  showOnce(text, pos, prog, vars, objects).pos, prog, vars, objects)
    ELSE text

\* the line a SHOW action writes
ShowLine(act, prog, vars, objects) == showFrom(From(act, 6), 1, prog, vars, objects)

\* ----------------------------------------------------------------------
\* Method dispatch
\* ----------------------------------------------------------------------

\* m[k] of an unordered_map that may lack k: operator[] default-constructs
At(m, k, dflt) == IF k \in DOMAIN m THEN m[k] ELSE dflt

\* objects[inst][field] = val (operator[] creates the object when absent)
\* SetField with a fault: the field is written in every object
SetFieldOfAll(objects, inst, field, val) ==
    [o \in DOMAIN objects \cup {inst} |-> Put(At(objects, o, EmptyMap), field, val)]

SetField(objects, inst, field, val) ==
    Put(objects, inst, Put(At(objects, inst, EmptyMap), field, val))

\* for each k of keys present in from: to[k] = from[k]
CopyBack(to, keys, from) ==
    [k \in DOMAIN to |-> IF k \in keys /\ k \in DOMAIN from THEN from[k] ELSE to[k]]

\* BindParams with a fault: the parameters are bound only when there is
\* one argument for each
BindParamsExact(localVars, paramNames, argValues, i) ==
    IF Len(argValues) # Len(paramNames) THEN localVars
    ELSE [k \in DOMAIN localVars \cup Range(paramNames) |->
             IF k \in Range(paramNames)
             THEN argValues[CHOOSE j \in DOMAIN paramNames : paramNames[j] = k]
             ELSE localVars[k]]

\* the positional binding loop of executeMethod
RECURSIVE BindParams(_, _, _, _)
BindParams(localVars, paramNames, argValues, i) ==
    IF i > Len(argValues) \/ i > Len(paramNames) THEN localVars
    ELSE BindParams(Put(localVars, paramNames[i], argValues[i]),
                    paramNames, argValues, i + 1)

\* The context threaded through an action list run by
\* executeActionsWithContext: the program (by reference), the scope's
\* vars and boolVars, its objects table, what was written to cout, whether
\* END was met (cont = FALSE), the jump recorded, and whether the call
\* stack overflowed.
RECURSIVE execContextFrom(_, _, _, _, _)
RECURSIVE executeMethod(_, _, _, _, _)

\* "SET name expr" in executeActionsWithContext: a dotted name writes the
\* object table; a plain name writes the field of thisInstance when it
\* has one of that name, else the boolean, else the integer variable
contextSet(c, name, pr, val, thisInstance) ==
    IF pr.second # <<>>
    THEN [c EXCEPT !.objects = SetField(@, pr.first, pr.second, val)]
    ELSE IF /\ thisInstance # <<>>
            /\ thisInstance \in DOMAIN c.objects
            /\ name \in DOMAIN c.objects[thisInstance]
    THEN [c EXCEPT !.objects = SetField(@, thisInstance, name, val)]
    ELSE IF name \in DOMAIN c.boolVars
    THEN [c EXCEPT !.boolVars = Put(@, name, val # 0)]
    ELSE [c EXCEPT !.vars = Put(@, name, val)]

\* "SET name expr" and "SIGNAL name expr" in executeActionsWithContext,
\* with the name and the expression split
contextAssign(c, ne, thisInstance, signal) ==
    IF signal
    THEN [c EXCEPT !.out = Append(@, <<"[", "S", "I", "G", "N", "A", "L", "]", " ">> \o ne.name \o <<" ", "=", " ">> \o
              to_string(evalExpressionString(ne.expr, c.vars, c.boolVars, c.objects)))]
    ELSE contextSet(c, ne.name, splitDot(ne.name),
             evalExpressionString(ne.expr, c.vars, c.boolVars, c.objects),
             thisInstance)

\* "IF ..." in executeActionsWithContext, decoded
contextIf(c, d) ==
    IF d.gpos = 0 THEN c
    ELSE IF evalExpressionString(d.cond, c.vars, c.boolVars, c.objects) # 0
    THEN [c EXCEPT !.target = d.target, !.jumped = TRUE, !.stop = TRUE]
    ELSE IF d.elseTarget # <<>>
    THEN [c EXCEPT !.target = d.elseTarget, !.jumped = TRUE, !.stop = TRUE]
    ELSE c

\* the context after a nested executeMethod returned r
contextReturn(c, r) ==
    [c EXCEPT !.prog = r.prog, !.out = @ \o r.out, !.err = @ \o r.err,
              !.crashed = r.crashed, !.stop = r.crashed]

\* "STMT ..." in executeActionsWithContext: a method call, a print, or
\* nothing
contextStmt(c, st, d, depth) ==
    IF d.isCall
    THEN contextReturn(c,
             executeMethod(c.prog, d.inst, d.method,
                 ArgValues(d.argsraw, c.vars, c.boolVars, c.objects), depth + 1))
    ELSE IF StartsAt(st, 1, <<"p", "r", "i", "n", "t">>)
    THEN [c EXCEPT !.out = @ \o PrintLine(st, c.vars, c.boolVars, c.objects)]
    ELSE c

\* one action of executeActionsWithContext; stop = TRUE ends the loop
execContextAction(act, c, thisInstance, depth) ==
    IF StartsAt(act, 1, <<"S", "E", "T", " ">>)
    THEN contextAssign(c, NameAndExpr(From(act, 5)), thisInstance, FALSE)
    ELSE IF StartsAt(act, 1, <<"S", "I", "G", "N", "A", "L", " ">>)
    THEN contextAssign(c, NameAndExpr(From(act, 8)), thisInstance, TRUE)
    ELSE IF StartsAt(act, 1, <<"I", "F", " ">>) THEN contextIf(c, DecodeIf(act))
    ELSE IF StartsAt(act, 1, <<"G", "O", "T", "O", " ">>)
    THEN [c EXCEPT !.target = From(act, 6), !.jumped = TRUE, !.stop = TRUE]
    ELSE IF act = <<"E", "N", "D">>
    THEN [c EXCEPT !.out = Append(@, <<"[", "D", "i", "a", "l", "o", "g", "u", "e", " ", "e", "n", "d", "e", "d", "]">>),
                   !.cont = FALSE, !.stop = TRUE]
    ELSE IF StartsAt(act, 1, <<"S", "T", "M", "T", " ">>)
    THEN contextStmt(c, trim(From(act, 6)), DecodeCall(trim(From(act, 6))), depth)
    ELSE IF StartsAt(act, 1, <<"S", "H", "O", "W", " ">>)
    THEN [c EXCEPT !.out = Append(@, ShowLine(act, c.prog, c.vars, c.objects))]
    ELSE c

\* executeActionsWithContext: the loop over the actions from index i on
execContextFrom(actions, i, c, thisInstance, depth) ==
    IF i > Len(actions) \/ c.stop THEN c
    ELSE execContextFrom(actions, i + 1,
             execContextAction(actions[i], c, thisInstance, depth),
             thisInstance, depth)

executeActionsWithContext(actions, prog, vars, boolVars, objects, thisInstance, depth) ==
    execContextFrom(actions, 1,
        [prog |-> prog, vars |-> vars, boolVars |-> boolVars, objects |-> objects,
         out |-> <<>>, err |-> <<>>, cont |-> TRUE, jumped |-> FALSE,
         target |-> <<>>, crashed |-> FALSE, stop |-> FALSE],
        thisInstance, depth)

\* executeMethod returning without running a body
\* methodFail with a fault: a failed lookup ends the run
methodFailStops(prog, err, crashed) ==
    [prog |-> prog, out |-> <<>>, err |-> err, crashed |-> TRUE]

methodFail(prog, err, crashed) ==
    [prog |-> prog, out |-> <<>>, err |-> err, crashed |-> crashed]

\* executeMethod: localVars is the globals, then the parameters bound
\* over them, then the instance's fields where no such name exists yet
methodScope(bound, instanceFieldCopy) ==
    [k \in DOMAIN bound \cup DOMAIN instanceFieldCopy |->
        IF k \in DOMAIN bound THEN bound[k] ELSE instanceFieldCopy[k]]

\* executeMethod: the local copy of the object table, with the instance
\* created from the class fields when it has no entry
methodObjects(prog, instanceName, fields) ==
    IF instanceName \in DOMAIN prog.objects THEN prog.objects
    ELSE Put(prog.objects, instanceName, fields)

\* executeMethod: prog.objects[instanceName][f] = localVars[f] for each
\* class field f that localVars holds
fieldsBack(objects, instanceName, fields, localVars) ==
    IF DOMAIN fields \cap DOMAIN localVars = {} THEN objects
    ELSE Put(objects, instanceName,
             [f \in DOMAIN At(objects, instanceName, EmptyMap)
                    \cup (DOMAIN fields \cap DOMAIN localVars) |->
                 IF f \in DOMAIN fields \cap DOMAIN localVars THEN localVars[f]
                 ELSE objects[instanceName][f]])

\* methodReturn with a fault: the write-back of the fields also goes to
\* the defaults of the instance's class
methodReturnIntoClass(c, instanceName, fields) ==
    [prog |-> [[c.prog EXCEPT
                   !.objects = fieldsBack(@, instanceName, fields, c.vars),
                   !.classes = Put(@, c.prog.instanceClass[instanceName],
                       [@[c.prog.instanceClass[instanceName]] EXCEPT
                           !.fields = [f \in DOMAIN fields |-> At(c.vars, f, fields[f])]]),
                   !.vars = CopyBack(@, DOMAIN @, c.vars),
                   !.boolVars = CopyBack(@, DOMAIN @, c.boolVars)]
               EXCEPT !.objects = c.objects],
     out |-> c.out, err |-> c.err, crashed |-> c.crashed]

\* executeMethod after the body ran in context c: the write-back on the
\* program as the nested calls left it, and last "prog.objects = objects"
methodReturn(c, instanceName, fields) ==
    [prog |-> [[c.prog EXCEPT
                   !.objects = fieldsBack(@, instanceName, fields, c.vars),
                   !.vars = CopyBack(@, DOMAIN @, c.vars),
                   !.boolVars = CopyBack(@, DOMAIN @, c.boolVars)]
               EXCEPT !.objects = c.objects],
     out |-> c.out, err |-> c.err, crashed |-> c.crashed]

\* executeMethod once instance, class and method are found
methodBody(prog, cdef, instanceName, methodName, argValues, objects, depth) ==
    methodReturn(
        executeActionsWithContext(cdef.methods[methodName], prog,
            methodScope(BindParams(prog.vars,
                                   At(cdef.methodParams, methodName, <<>>),
                                   argValues, 1),
                        objects[instanceName]),
            prog.boolVars, objects, instanceName, depth),
        instanceName, cdef.fields)

\* executeMethod: [prog, out, err, crashed]; crashed is the call stack
\* running out, which the model reports at depth MaxCallDepth
executeMethod(prog, instanceName, methodName, argValues, depth) ==
    IF depth > MaxCallDepth THEN methodFail(prog, <<>>, TRUE)
    ELSE IF instanceName \notin DOMAIN prog.instanceClass
    THEN methodFail(prog, <<"Runtime: unknown instance">>, FALSE)
    ELSE IF prog.instanceClass[instanceName] \notin DOMAIN prog.classes
    THEN methodFail(prog, <<"Runtime: unknown class">>, FALSE)
    ELSE IF methodName \notin
                DOMAIN prog.classes[prog.instanceClass[instanceName]].methods
    THEN methodFail(prog, <<"Runtime: no method">>, FALSE)
    ELSE methodBody(prog, prog.classes[prog.instanceClass[instanceName]],
             instanceName, methodName, argValues,
             methodObjects(prog, instanceName,
                 prog.classes[prog.instanceClass[instanceName]].fields),
             depth)

\* ----------------------------------------------------------------------
\* Text rendering of runProgram
\* ----------------------------------------------------------------------

\* the "[@You]" replacement loop from position pos on
RECURSIVE replaceYou(_, _)
replaceYou(text, pos) ==
    LET p == Find(text, <<"[", "@", "Y", "o", "u", "]">>, pos) IN
    IF p = 0 THEN text
    ELSE replaceYou(SubSeq(text, 1, p - 1) \o <<"[">> \o playerName \o <<"]">>
                        \o From(text, p + 6),
                    p + Len(playerName) + 2)

\* the value the node-text renderer substitutes for ${varname}
NodeTextValue(varname, vars, boolVars, objects) ==
    LET pr == splitDot(varname) IN
    IF pr.second # <<>>
    THEN IF pr.first \in DOMAIN objects /\ pr.second \in DOMAIN objects[pr.first]
         THEN to_string(objects[pr.first][pr.second])
         ELSE <<"0">>
    ELSE IF varname \in DOMAIN boolVars
        THEN (IF boolVars[varname] THEN sTrue ELSE sFalse)
    ELSE IF varname \in DOMAIN vars THEN to_string(vars[varname])
    ELSE <<"0">>

\* one round of the ${...} loop of the node-text renderer, entered with
\* the search position pos: more tells that the body ran (a marker "${"
\* with a "}" after it was found, replaced by its value, and the search
\* position moved one character on)
nodeTextOnce(out, pos, vars, boolVars, objects) ==
    LET p == Find(out, <<"$", "{">>, pos)
        q == Find(out, <<"}">>, p + 2)
    IN  IF p = 0 \/ q = 0 THEN [more |-> FALSE, text |-> out, pos |-> pos]
        ELSE [more |-> TRUE,
              text |-> SubSeq(out, 1, p - 1)
                           \o NodeTextValue(SubSeq(out, p + 2, q - 1), vars, boolVars, objects)
                           \o From(out, q + 1),
              pos |-> p + 1]

\* the ${...} loop of the node-text renderer from position pos on
RECURSIVE nodeTextFrom(_, _, _, _, _)
nodeTextFrom(out, pos, vars, boolVars, objects) ==
    IF nodeTextOnce(out, pos, vars, boolVars, objects).more
    THEN nodeTextFrom(nodeTextOnce(out, pos, vars, boolVars, objects).text,
                      nodeTextOnce(out, pos, vars, boolVars, objects).pos,
                      vars, boolVars, objects)
    ELSE out

\* what runProgram writes for the text of a node: nothing for an empty text
NodeTextLines(text, vars, boolVars, objects) ==
    IF text = <<>> THEN <<>>
    ELSE <<nodeTextFrom(replaceYou(text, 1), 1, vars, boolVars, objects)>>

\* what runProgram writes for the choices of a node, before the prompt
ChoiceLines(choices) ==
    [i \in 1..Len(choices) |->
        <<"[">> \o to_string(choices[i].id) \o <<"]", " ">> \o replaceYou(choices[i].text, 1)]

\* the target of the first choice whose id is sel, <<>> with no such choice
\* (the loop "for c in node.choices: if c.id == sel")
ChoiceTarget(choices, sel) ==
    LET hits == {i \in 1..Len(choices) : choices[i].id = sel}
    IN  IF hits = {} THEN [ok |-> FALSE, target |-> <<>>]
        ELSE [ok |-> TRUE,
              target |-> choices[CHOOSE i \in hits : \A j \in hits : i <= j].target]

\* ----------------------------------------------------------------------
\* The program as a state machine: main() parses the script one top-level
\* declaration at a time, then runProgram walks the nodes one action at a
\* time.
\* ----------------------------------------------------------------------

VARIABLES
    src,        \* the script text
    lexer,      \* Lexer::i, the cursor (1-based)
    tk,         \* Parser::tk, the token of lookahead
    prog,       \* Program (the parser's, then the one runProgram runs)
    cerr,       \* the diagnostics the last step wrote
    cout,       \* the output the last step wrote
    phase,      \* "parse", "run" or "done"
    current,    \* runProgram: the current node name
    vars,       \* runProgram: its copy of the integer variables
    boolVars,   \* runProgram: its copy of the boolean variables
    at,         \* runProgram: "top" of the loop, "prompt" or "acts"
    pc,         \* runProgram: index of the next action of the node
    input,      \* runProgram: what the last "cin >> sel" yielded
    halt,       \* how the run stopped: "", "END", "noedge", "unknown", "crash"
    expr,       \* the expression an evaluation is asked for, token by token
    result      \* the value that evaluation returned

varlist == <<src, lexer, tk, prog, cerr, cout, phase, current, vars, boolVars,
             at, pc, input, halt, expr, result>>

parseVars == <<src, lexer, tk>>

evalVars == <<expr, result>>

\* the tokens the parser has ahead of it: the token of lookahead, then the
\* results of next() from the lexer's cursor on, up to the first EOF at
\* least (a token other than EOF takes at least one character)
Ahead == <<[tok |-> tk, p |-> lexer]>> \o LexN(src, lexer, Len(src) + 2 - lexer)

\* the iteration of Parser::parse about to run calls next() at a cursor
\* where more comments follow each other than the stack holds calls
\* (which takes a "//" in the text that is left)
ParseOverflows ==
    /\ phase = "parse"
    /\ tk.kind # "EOF"
    /\ Find(src, <<"/", "/">>, lexer) # 0
    /\ \E toks \in {Ahead} :
       \E ps \in {parseTop(toks, [NewParser(toks) EXCEPT !.prog = prog])} :
       \E j \in 1..(ps.i - 1) : nextDepth(src, TokAt(toks, j).p) > MaxLexDepth

\* an iteration of the loop of Parser::parse in which the stack runs out
\* under Lexer::next: the process is terminated where it stands
ParseAbort ==
    /\ ParseOverflows
    /\ phase' = "done"
    /\ halt' = "crash"
    /\ cerr' = <<>>
    /\ cout' = <<>>
    /\ UNCHANGED <<parseVars, evalVars, prog, current, vars, boolVars, at, pc, input>>

\* one iteration of the loop of Parser::parse
ParseTop ==
    /\ phase = "parse"
    /\ tk.kind # "EOF"
    /\ ~ParseOverflows
    /\ \E toks \in {Ahead} :
       \E ps \in {parseTop(toks, [NewParser(toks) EXCEPT !.prog = prog])} :
           /\ lexer' = ps.p
           /\ tk' = ps.tk
           /\ prog' = ps.prog
           /\ cerr' = ps.err
    /\ cout' = <<>>
    /\ UNCHANGED <<src, evalVars, phase, current, vars, boolVars, at, pc, input, halt>>

\* main() after parse(): runProgram starts at the entry node with copies
\* of the integer and boolean variables, and writes the banner
StartRun ==
    /\ phase = "parse"
    /\ tk.kind = "EOF"
    /\ phase' = "run"
    /\ current' = prog.entry
    /\ vars' = prog.vars
    /\ boolVars' = prog.boolVars
    /\ at' = "top"
    /\ pc' = 0
    /\ cout' = (IF prog.npc # <<>> THEN <<<<"N", "p", "c", ":", " ">> \o prog.npc>> ELSE <<>>)
            \o (IF prog.desc # <<>> THEN <<<<"D", "e", "s", "c", "r", "i", "p", "t", "i", "o", "n", ":", " ">> \o prog.desc, <<>>>> ELSE <<>>)
    /\ cerr' = <<>>
    /\ UNCHANGED <<parseVars, evalVars, prog, input, halt>>

\* UnknownNode with a fault: the run goes back to the entry node
UnknownNodeRestarts ==
    /\ phase = "run" /\ at = "top"
    /\ current \notin DOMAIN prog.nodes
    /\ cerr' = <<"Unknown node">>
    /\ cout' = <<>>
    /\ current' = prog.entry
    /\ UNCHANGED <<parseVars, evalVars, prog, phase, halt, vars, boolVars, at, pc, input>>

\* the top of the run loop with a current node that is not in the table
UnknownNode ==
    /\ phase = "run" /\ at = "top"
    /\ current \notin DOMAIN prog.nodes
    /\ cerr' = <<"Unknown node">>
    /\ cout' = <<>>
    /\ phase' = "done"
    /\ halt' = "unknown"
    /\ UNCHANGED <<parseVars, evalVars, prog, current, vars, boolVars, at, pc, input>>

\* EnterNode with a fault: the choices are listed, and then the node's
\* own action list runs
EnterNodeRunsActions ==
    /\ phase = "run" /\ at = "top"
    /\ current \in DOMAIN prog.nodes
    /\ cout' = ChoiceLines(prog.nodes[current].choices)
    /\ at' = "acts"
    /\ pc' = 1
    /\ cerr' = <<>>
    /\ UNCHANGED <<parseVars, evalVars, prog, phase, current, vars, boolVars, input, halt>>

\* the top of the run loop: the node's text is written, then either its
\* choices are listed and the prompt opens, or its action list starts
EnterNode ==
    /\ phase = "run" /\ at = "top"
    /\ current \in DOMAIN prog.nodes
    /\ \E node \in {prog.nodes[current]} :
       \E text \in {NodeTextLines(node.text, vars, boolVars, prog.objects)} :
           IF node.choices # <<>>
           THEN /\ cout' = text \o ChoiceLines(node.choices)
                /\ at' = "prompt"
                /\ pc' = 0
           ELSE /\ cout' = text
                /\ at' = "acts"
                /\ pc' = 1
    /\ cerr' = <<>>
    /\ UNCHANGED <<parseVars, evalVars, prog, phase, current, vars, boolVars, input, halt>>

\* a bound on the numbers the operator types at a prompt
MaxInput == 5

\* what "cin >> sel" can yield: a number, or a failed extraction (which
\* leaves 0 in sel)
Inputs == [ok : {TRUE}, sel : 0..MaxInput] \cup {[ok |-> FALSE, sel |-> 0]}

\* Choose with a fault: an input that selects nothing takes the first
\* choice
ChooseDefaults(in) ==
    /\ phase = "run" /\ at = "prompt"
    /\ input' = in
    /\ \E c \in {ChoiceTarget(prog.nodes[current].choices, in.sel)} :
           current' = IF in.ok /\ c.ok THEN c.target
                      ELSE prog.nodes[current].choices[1].target
    /\ at' = "top"
    /\ cout' = <<<<"C", "h", "o", "o", "s", "e", ":", " ">>>>
    /\ cerr' = <<>>
    /\ UNCHANGED <<parseVars, evalVars, prog, phase, vars, boolVars, pc, halt>>

\* one round of the prompt loop with the extraction result in
Choose(in) ==
    /\ phase = "run" /\ at = "prompt"
    /\ input' = in
    /\ \E c \in {ChoiceTarget(prog.nodes[current].choices, in.sel)} :
           IF ~in.ok
           THEN /\ cout' = <<<<"C", "h", "o", "o", "s", "e", ":", " ">>, <<"I", "n", "v", "a", "l", "i", "d">>>>
                /\ UNCHANGED <<current, at>>
           ELSE IF c.ok
           THEN /\ cout' = <<<<"C", "h", "o", "o", "s", "e", ":", " ">>>>
                /\ current' = c.target
                /\ at' = "top"
           ELSE /\ cout' = <<<<"C", "h", "o", "o", "s", "e", ":", " ">>, <<"I", "n", "v", "a", "l", "i", "d", " ", "c", "h", "o", "i", "c", "e">>>>
                /\ UNCHANGED <<current, at>>
    /\ cerr' = <<>>
    /\ UNCHANGED <<parseVars, evalVars, prog, phase, vars, boolVars, pc, halt>>

\* the loop over the node's actions is about to execute one
AtAction == phase = "run" /\ at = "acts" /\ pc <= Len(prog.nodes[current].actions)

CurAct == prog.nodes[current].actions[pc]

\* the raw statement of a "STMT " action, trimmed
StmtOf(act) == trim(From(act, 6))

\* the expressions runProgram hands to evalExpressionString when it
\* executes the action act itself, in the order it evaluates them: the
\* right-hand side of SET and SIGNAL, the condition of an IF that holds
\* " GOTO ", the arguments of a method call, the argument of a "print("
\* that is no quoted text
Evaluated(act) ==
    IF StartsAt(act, 1, <<"S", "E", "T", " ">>) THEN <<NameAndExpr(From(act, 5)).expr>>
    ELSE IF StartsAt(act, 1, <<"S", "I", "G", "N", "A", "L", " ">>) THEN <<NameAndExpr(From(act, 8)).expr>>
    ELSE IF StartsAt(act, 1, <<"I", "F", " ">>)
        THEN (IF DecodeIf(act).gpos # 0 THEN <<DecodeIf(act).cond>> ELSE <<>>)
    ELSE IF ~StartsAt(act, 1, <<"S", "T", "M", "T", " ">>) THEN <<>>
    ELSE IF DecodeCall(StmtOf(act)).isCall THEN splitArgs(DecodeCall(StmtOf(act)).argsraw)
    ELSE IF ~(StartsAt(StmtOf(act), 1, <<"p", "r", "i", "n", "t", "(">>) /\ RFindChar(StmtOf(act), ")") > 6)
        THEN <<>>
    ELSE LET inner == SubSeq(StmtOf(act), 7, RFindChar(StmtOf(act), ")") - 1)
         IN  IF Len(inner) >= 2 /\ inner[1] = "\"" /\ inner[Len(inner)] = "\""
             THEN <<>> ELSE <<inner>>

\* executing the action act, one of its evaluations throws
Throws(act) == \E i \in DOMAIN Evaluated(act) : evalThrows(Evaluated(act)[i])

\* an action whose evaluation throws std::out_of_range out of stoll:
\* nothing catches it, the process is terminated where it stands
ExecAbort ==
    /\ AtAction
    /\ Throws(CurAct)
    /\ cerr' = <<"terminate called after throwing an instance of 'std::out_of_range'">>
    /\ cout' = <<>>
    /\ phase' = "done"
    /\ halt' = "crash"
    /\ UNCHANGED <<parseVars, evalVars, prog, current, vars, boolVars, at, pc, input>>

\* ExecSet with a fault: an undotted name is always written to the
\* integer table
ExecSetIntOnly ==
    /\ AtAction
    /\ ~Throws(CurAct)
    /\ StartsAt(CurAct, 1, <<"S", "E", "T", " ">>)
    /\ \E ne \in {NameAndExpr(From(CurAct, 5))} :
       \E val \in {evalExpressionString(ne.expr, vars, boolVars, prog.objects)} :
           vars' = Put(vars, ne.name, val)
    /\ pc' = pc + 1
    /\ cout' = <<>> /\ cerr' = <<>>
    /\ UNCHANGED <<parseVars, evalVars, prog, boolVars, phase, current, at, input, halt>>

\* ExecSet with a fault: the action stays the next one of the list
ExecSetStays ==
    /\ AtAction
    /\ ~Throws(CurAct)
    /\ StartsAt(CurAct, 1, <<"S", "E", "T", " ">>)
    /\ \E ne \in {NameAndExpr(From(CurAct, 5))} :
       \E val \in {evalExpressionString(ne.expr, vars, boolVars, prog.objects)} :
           vars' = Put(vars, ne.name, val)
    /\ cout' = <<>> /\ cerr' = <<>>
    /\ UNCHANGED <<parseVars, evalVars, prog, boolVars, phase, current, at, pc, input, halt>>

\* "SET name expr" in runProgram
ExecSet ==
    /\ AtAction
    /\ ~Throws(CurAct)
    /\ StartsAt(CurAct, 1, <<"S", "E", "T", " ">>)
    /\ \E ne \in {NameAndExpr(From(CurAct, 5))} :
       \E pr \in {splitDot(ne.name)} :
       \E val \in {evalExpressionString(ne.expr, vars, boolVars, prog.objects)} :
           IF pr.second # <<>>
           THEN /\ prog' = [prog EXCEPT !.objects = SetField(@, pr.first, pr.second, val)]
                /\ UNCHANGED <<vars, boolVars>>
           ELSE IF ne.name \in DOMAIN boolVars
           THEN /\ boolVars' = Put(boolVars, ne.name, val # 0)
                /\ UNCHANGED <<prog, vars>>
           ELSE /\ vars' = Put(vars, ne.name, val)
                /\ UNCHANGED <<prog, boolVars>>
    /\ pc' = pc + 1
    /\ cout' = <<>> /\ cerr' = <<>>
    /\ UNCHANGED <<parseVars, evalVars, phase, current, at, input, halt>>

\* ExecSignal with a fault: the value of the signal is stored as an
\* integer variable of the signal's name
ExecSignalStores ==
    /\ AtAction
    /\ ~Throws(CurAct)
    /\ StartsAt(CurAct, 1, <<"S", "I", "G", "N", "A", "L", " ">>)
    /\ \E ne \in {NameAndExpr(From(CurAct, 8))} :
       \E val \in {evalExpressionString(ne.expr, vars, boolVars, prog.objects)} :
           /\ cout' = <<<<"[", "S", "I", "G", "N", "A", "L", "]", " ">> \o ne.name \o <<" ", "=", " ">>
                          \o (IF val # 0 THEN sTrue ELSE sFalse)>>
           /\ vars' = Put(vars, ne.name, val)
    /\ pc' = pc + 1
    /\ cerr' = <<>>
    /\ UNCHANGED <<parseVars, evalVars, prog, phase, current, boolVars, at, input, halt>>

\* "SIGNAL name expr" in runProgram
ExecSignal ==
    /\ AtAction
    /\ ~Throws(CurAct)
    /\ StartsAt(CurAct, 1, <<"S", "I", "G", "N", "A", "L", " ">>)
    /\ \E ne \in {NameAndExpr(From(CurAct, 8))} :
       \E val \in {evalExpressionString(ne.expr, vars, boolVars, prog.objects)} :
           cout' = <<<<"[", "S", "I", "G", "N", "A", "L", "]", " ">> \o ne.name \o <<" ", "=", " ">>
                       \o (IF val # 0 THEN sTrue ELSE sFalse)>>
    /\ pc' = pc + 1
    /\ cerr' = <<>>
    /\ UNCHANGED <<parseVars, evalVars, prog, phase, current, vars, boolVars, at, input, halt>>

\* "IF cond GOTO target [ELSE elseTarget]" in runProgram
ExecIf ==
    /\ AtAction
    /\ ~Throws(CurAct)
    /\ StartsAt(CurAct, 1, <<"I", "F", " ">>)
    /\ \E d \in {DecodeIf(CurAct)} :
       \E res \in {evalExpressionString(d.cond, vars, boolVars, prog.objects)} :
           IF d.gpos # 0 /\ res # 0
           THEN current' = d.target /\ at' = "top" /\ pc' = 0
           ELSE IF d.gpos # 0 /\ d.elseTarget # <<>>
           THEN current' = d.elseTarget /\ at' = "top" /\ pc' = 0
           ELSE pc' = pc + 1 /\ UNCHANGED <<current, at>>
    /\ cout' = <<>> /\ cerr' = <<>>
    /\ UNCHANGED <<parseVars, evalVars, prog, phase, vars, boolVars, input, halt>>

\* "GOTO target" in runProgram
ExecGoto ==
    /\ AtAction
    /\ StartsAt(CurAct, 1, <<"G", "O", "T", "O", " ">>)
    /\ current' = From(CurAct, 6)
    /\ at' = "top"
    /\ pc' = 0
    /\ cout' = <<>> /\ cerr' = <<>>
    /\ UNCHANGED <<parseVars, evalVars, prog, phase, vars, boolVars, input, halt>>

\* ExecEnd with a fault: the message is written and the list goes on
ExecEndGoesOn ==
    /\ AtAction
    /\ CurAct = <<"E", "N", "D">>
    /\ cout' = <<<<"[", "D", "i", "a", "l", "o", "g", "u", "e", " ", "e", "n", "d", "e", "d", "]">>>>
    /\ cerr' = <<>>
    /\ pc' = pc + 1
    /\ UNCHANGED <<parseVars, evalVars, prog, phase, current, vars, boolVars, at, input, halt>>

\* "END" in runProgram: the run returns
ExecEnd ==
    /\ AtAction
    /\ CurAct = <<"E", "N", "D">>
    /\ cout' = <<<<"[", "D", "i", "a", "l", "o", "g", "u", "e", " ", "e", "n", "d", "e", "d", "]">>>>
    /\ cerr' = <<>>
    /\ phase' = "done"
    /\ halt' = "END"
    /\ UNCHANGED <<parseVars, evalVars, prog, current, vars, boolVars, at, pc, input>>

\* "iss >> word" on text from position p: [word, p], the next
\* whitespace-delimited word (empty at the end of the text) and the
\* position after it
NextWord(text, p) ==
    LET b == SkipWhile(text, p, Space)
        e == SkipWhile(text, b, Range(text) \ Space)
    IN  [word |-> SubSeq(text, b, e - 1), p |-> e]

\* the body of the method a decoded call names, empty when the call finds
\* no instance, class or method
BodyOf(d) ==
    IF /\ d.inst \in DOMAIN prog.instanceClass
       /\ prog.instanceClass[d.inst] \in DOMAIN prog.classes
       /\ d.method \in DOMAIN prog.classes[prog.instanceClass[d.inst]].methods
    THEN prog.classes[prog.instanceClass[d.inst]].methods[d.method]
    ELSE <<>>

\* ExecCall with a fault: a "goto" statement in the body of the method
\* moves the calling node
ExecCallJumps ==
    /\ AtAction
    /\ ~Throws(CurAct)
    /\ StartsAt(CurAct, 1, <<"S", "T", "M", "T", " ">>)
    /\ DecodeCall(StmtOf(CurAct)).isCall
    /\ \E d \in {DecodeCall(StmtOf(CurAct))} :
       \E r \in {executeMethod(prog, d.inst, d.method,
                     ArgValues(d.argsraw, vars, boolVars, prog.objects), 1)} :
       \E gotos \in {{i \in DOMAIN BodyOf(d) : StartsAt(BodyOf(d)[i], 1, <<"S", "T", "M", "T", " ", "g", "o", "t", "o">>)}} :
           /\ prog' = r.prog
           /\ cout' = r.out
           /\ cerr' = r.err
           /\ IF gotos # {}
              THEN /\ current' = From(BodyOf(d)[CHOOSE i \in gotos : TRUE], 10)
                   /\ at' = "top"
                   /\ pc' = 0
              ELSE pc' = pc + 1 /\ UNCHANGED <<current, at>>
    /\ UNCHANGED <<parseVars, evalVars, phase, halt, vars, boolVars, input>>

\* "STMT inst.method(args)" in runProgram: a method call
ExecCall ==
    /\ AtAction
    /\ ~Throws(CurAct)
    /\ StartsAt(CurAct, 1, <<"S", "T", "M", "T", " ">>)
    /\ DecodeCall(StmtOf(CurAct)).isCall
    /\ \E d \in {DecodeCall(StmtOf(CurAct))} :
       \E r \in {executeMethod(prog, d.inst, d.method,
                     ArgValues(d.argsraw, vars, boolVars, prog.objects), 1)} :
           /\ prog' = r.prog
           /\ cout' = r.out
           /\ cerr' = r.err
           /\ IF r.crashed
              THEN phase' = "done" /\ halt' = "crash" /\ pc' = pc
              ELSE pc' = pc + 1 /\ UNCHANGED <<phase, halt>>
    /\ UNCHANGED <<parseVars, evalVars, current, vars, boolVars, at, input>>

\* "STMT ..." in runProgram that is no method call: an inline "new ", a
\* "print(", or a statement that is ignored
ExecStmt ==
    /\ AtAction
    /\ ~Throws(CurAct)
    /\ StartsAt(CurAct, 1, <<"S", "T", "M", "T", " ">>)
    /\ ~DecodeCall(StmtOf(CurAct)).isCall
    /\ \E st \in {StmtOf(CurAct)} :
       IF StartsAt(st, 1, <<"n", "e", "w", " ">>)
       THEN \E w1 \in {NextWord(From(st, 5), 1)} :
            \E w2 \in {NextWord(From(st, 5), w1.p)} :
                IF w1.word \in DOMAIN prog.classes
                THEN /\ prog' = [prog EXCEPT
                            !.objects = Put(@, w2.word, prog.classes[w1.word].fields),
                            !.instanceClass = Put(@, w2.word, w1.word)]
                     /\ cerr' = <<>> /\ cout' = <<>>
                ELSE /\ cerr' = <<"Unknown class in inline new">>
                     /\ cout' = <<>>
                     /\ UNCHANGED prog
       ELSE IF StartsAt(st, 1, <<"p", "r", "i", "n", "t", "(">>)
       THEN /\ cout' = PrintLine(st, vars, boolVars, prog.objects)
            /\ cerr' = <<>>
            /\ UNCHANGED prog
       ELSE cout' = <<>> /\ cerr' = <<>> /\ UNCHANGED prog
    /\ pc' = pc + 1
    /\ UNCHANGED <<parseVars, evalVars, phase, current, vars, boolVars, at, input, halt>>

\* "SHOW text" in runProgram
ExecShow ==
    /\ AtAction
    /\ StartsAt(CurAct, 1, <<"S", "H", "O", "W", " ">>)
    /\ cout' = <<ShowLine(CurAct, prog, vars, prog.objects)>>
    /\ cerr' = <<>>
    /\ pc' = pc + 1
    /\ UNCHANGED <<parseVars, evalVars, prog, phase, current, vars, boolVars, at, input, halt>>

\* the action list of a node without choices ran to its end with no jump
NodeDone ==
    /\ phase = "run" /\ at = "acts"
    /\ pc > Len(prog.nodes[current].actions)
    /\ cout' = <<<<"[", "E", "n", "d", " ", "o", "f", " ", "C", "o", "n", "v", "e", "r", "s", "a", "t", "i", "o", "n", "]">>>>
    /\ cerr' = <<>>
    /\ phase' = "done"
    /\ halt' = "noedge"
    /\ UNCHANGED <<parseVars, evalVars, prog, current, vars, boolVars, at, pc, input>>

Next ==
    \/ ParseTop
    \/ ParseAbort
    \/ StartRun
    \/ UnknownNode
    \/ EnterNode
    \/ \E in \in Inputs : Choose(in)
    \/ ExecSet
    \/ ExecSignal
    \/ ExecIf
    \/ ExecGoto
    \/ ExecEnd
    \/ ExecCall
    \/ ExecStmt
    \/ ExecShow
    \/ ExecAbort
    \/ NodeDone

\* ----------------------------------------------------------------------
\* The scripts the runs start from.
\* ----------------------------------------------------------------------

\* battle: class C with int health = 10 and
\*   void attack(amount) { set health = health - amount; }
\* instances hero and orc, "int c = hero.health;" at load time, a boolean
\* alarm and an integer hp; node Start has choices 1 -> Light,
\* 2 -> Heavy, 2 -> Dead, 3 -> Dead and actions of its own (set, goto,
\* end); Light calls hero.attack(1), sets hp and alarm and branches with
\* if/else; Heavy calls hero.attack(3), sets orc.health, shows, signals
\* and has "end;" in the middle of its list; Dead prints, has an inline
\* new and an if without else to a node that does not exist.
BattleScript ==
    <<"n", "p", "c", " ", "\"", "G", "u", "a", "r", "d", "\"", ";", "\n",
      "m", "a", "t", "c", "h", " ", "a", "l", "a", "r", "m", " ", "=", " ",
      "f", "a", "l", "s", "e", ";", "\n", "i", "n", "t", " ", "h", "p", " ",
      "=", " ", "5", ";", "\n", "c", "l", "a", "s", "s", " ", "C", " ", "{",
      "\n", " ", " ", "i", "n", "t", " ", "h", "e", "a", "l", "t", "h", " ",
      "=", " ", "1", "0", ";", "\n", " ", " ", "v", "o", "i", "d", " ", "a",
      "t", "t", "a", "c", "k", "(", "a", "m", "o", "u", "n", "t", ")", " ",
      "{", " ", "s", "e", "t", " ", "h", "e", "a", "l", "t", "h", " ", "=",
      " ", "h", "e", "a", "l", "t", "h", " ", "-", " ", "a", "m", "o", "u",
      "n", "t", ";", " ", "}", "\n", "}", "\n", "n", "e", "w", " ", "C", " ",
      "h", "e", "r", "o", ";", "\n", "n", "e", "w", " ", "C", " ", "o", "r",
      "c", ";", "\n", "i", "n", "t", " ", "c", " ", "=", " ", "h", "e", "r",
      "o", ".", "h", "e", "a", "l", "t", "h", ";", "\n", "n", "o", "d", "e",
      " ", "S", "t", "a", "r", "t", " ", "{", "\n", " ", " ", "l", "i", "n",
      "e", " ", "\"", "F", "i", "g", "h", "t", " ", "$", "{", "h", "e", "r",
      "o", ".", "h", "e", "a", "l", "t", "h", "}", "\"", ";", "\n", " ", " ",
      "c", "h", "o", "i", "c", "e", " ", "1", ":", " ", "\"", "l", "i", "g",
      "h", "t", "\"", " ", "-", ">", " ", "L", "i", "g", "h", "t", ";", "\n",
      " ", " ", "c", "h", "o", "i", "c", "e", " ", "2", ":", " ", "\"", "h",
      "e", "a", "v", "y", "\"", " ", "-", ">", " ", "H", "e", "a", "v", "y",
      ";", "\n", " ", " ", "c", "h", "o", "i", "c", "e", " ", "2", ":", " ",
      "\"", "a", "g", "a", "i", "n", "\"", " ", "-", ">", " ", "D", "e", "a",
      "d", ";", "\n", " ", " ", "c", "h", "o", "i", "c", "e", " ", "3", ":",
      " ", "\"", "f", "l", "e", "e", "\"", " ", "-", ">", " ", "D", "e", "a",
      "d", ";", "\n", " ", " ", "s", "e", "t", " ", "h", "p", " ", "=", " ",
      "0", ";", "\n", " ", " ", "g", "o", "t", "o", " ", "D", "e", "a", "d",
      ";", "\n", " ", " ", "e", "n", "d", ";", "\n", "}", "\n", "n", "o",
      "d", "e", " ", "L", "i", "g", "h", "t", " ", "{", "\n", " ", " ", "h",
      "e", "r", "o", ".", "a", "t", "t", "a", "c", "k", "(", "1", ")", ";",
      "\n", " ", " ", "s", "e", "t", " ", "h", "p", " ", "=", " ", "h", "p",
      " ", "-", " ", "2", ";", "\n", " ", " ", "s", "e", "t", " ", "a", "l",
      "a", "r", "m", " ", "=", " ", "h", "p", " ", "-", " ", "1", ";", "\n",
      " ", " ", "i", "f", " ", "(", "h", "p", " ", "<", "=", " ", "0", ")",
      " ", "g", "o", "t", "o", " ", "D", "e", "a", "d", " ", "e", "l", "s",
      "e", " ", "g", "o", "t", "o", " ", "S", "t", "a", "r", "t", ";", "\n",
      "}", "\n", "n", "o", "d", "e", " ", "H", "e", "a", "v", "y", " ", "{",
      "\n", " ", " ", "h", "e", "r", "o", ".", "a", "t", "t", "a", "c", "k",
      "(", "3", ")", ";", "\n", " ", " ", "s", "e", "t", " ", "o", "r", "c",
      ".", "h", "e", "a", "l", "t", "h", " ", "=", " ", "h", "e", "r", "o",
      ".", "h", "e", "a", "l", "t", "h", " ", "-", " ", "4", ";", "\n", " ",
      " ", "s", "h", "o", "w", " ", "\"", "h", "e", "r", "o", " ", "$", "{",
      "h", "e", "r", "o", ".", "h", "e", "a", "l", "t", "h", "}", " ", "o",
      "r", "c", " ", "$", "{", "o", "r", "c", ".", "h", "e", "a", "l", "t",
      "h", "}", " ", "c", " ", "$", "{", "c", "}", "\"", ";", "\n", " ", " ",
      "s", "i", "g", "n", "a", "l", " ", "s", "e", "e", "n", " ", "=", " ",
      "o", "r", "c", ".", "g", "h", "o", "s", "t", ";", "\n", " ", " ", "e",
      "n", "d", ";", "\n", " ", " ", "s", "e", "t", " ", "h", "p", " ", "=",
      " ", "9", "9", ";", "\n", " ", " ", "g", "o", "t", "o", " ", "S", "t",
      "a", "r", "t", ";", "\n", "}", "\n", "n", "o", "d", "e", " ", "D", "e",
      "a", "d", " ", "{", "\n", " ", " ", "p", "r", "i", "n", "t", "(", "h",
      "p", ")", ";", "\n", " ", " ", "n", "e", "w", " ", "C", " ", "t", "r",
      "o", "l", "l", ";", "\n", " ", " ", "i", "f", " ", "(", "a", "l", "a",
      "r", "m", ")", " ", "g", "o", "t", "o", " ", "G", "o", "n", "e", ";",
      "\n", "}", "\n">>

\* branch: "int hp = 5; int neg = -5;", node Start with choices
\* 1 -> Hurt, 2 -> Check, 3 -> Paren, 4 -> Fall; Hurt is
\* "set hp = 5 - hp; goto Start;"; Check is
\* "if (hp <= 0) goto Dead else goto Alive;"; Paren is
\* "if ((hp) <= 0) goto Dead else goto Alive;"; Fall is
\* "if (hp <= 0) goto Dead;" followed by a show, "set hp = 3 * -2;",
\* "set neg = -5;", "set fresh = hp + 2;" and a show; Dead ends, Alive
\* has no action.
BranchScript ==
    <<"i", "n", "t", " ", "h", "p", " ", "=", " ", "5", ";", "\n", "i", "n",
      "t", " ", "n", "e", "g", " ", "=", " ", "-", "5", ";", "\n", "n", "o",
      "d", "e", " ", "S", "t", "a", "r", "t", " ", "{", "\n", " ", " ", "l",
      "i", "n", "e", " ", "\"", "[", "@", "Y", "o", "u", "]", " ", "h", "p",
      " ", "$", "{", "h", "p", "}", "\"", ";", "\n", " ", " ", "c", "h", "o",
      "i", "c", "e", " ", "1", ":", " ", "\"", "h", "u", "r", "t", "\"", " ",
      "-", ">", " ", "H", "u", "r", "t", ";", "\n", " ", " ", "c", "h", "o",
      "i", "c", "e", " ", "2", ":", " ", "\"", "c", "h", "e", "c", "k", "\"",
      " ", "-", ">", " ", "C", "h", "e", "c", "k", ";", "\n", " ", " ", "c",
      "h", "o", "i", "c", "e", " ", "3", ":", " ", "\"", "p", "a", "r", "e",
      "n", "\"", " ", "-", ">", " ", "P", "a", "r", "e", "n", ";", "\n", " ",
      " ", "c", "h", "o", "i", "c", "e", " ", "4", ":", " ", "\"", "f", "a",
      "l", "l", "\"", " ", "-", ">", " ", "F", "a", "l", "l", ";", "\n", "}",
      "\n", "n", "o", "d", "e", " ", "H", "u", "r", "t", " ", "{", " ", "s",
      "e", "t", " ", "h", "p", " ", "=", " ", "5", " ", "-", " ", "h", "p",
      ";", " ", "g", "o", "t", "o", " ", "S", "t", "a", "r", "t", ";", " ",
      "}", "\n", "n", "o", "d", "e", " ", "C", "h", "e", "c", "k", " ", "{",
      " ", "i", "f", " ", "(", "h", "p", " ", "<", "=", " ", "0", ")", " ",
      "g", "o", "t", "o", " ", "D", "e", "a", "d", " ", "e", "l", "s", "e",
      " ", "g", "o", "t", "o", " ", "A", "l", "i", "v", "e", ";", " ", "}",
      "\n", "n", "o", "d", "e", " ", "P", "a", "r", "e", "n", " ", "{", " ",
      "i", "f", " ", "(", "(", "h", "p", ")", " ", "<", "=", " ", "0", ")",
      " ", "g", "o", "t", "o", " ", "D", "e", "a", "d", " ", "e", "l", "s",
      "e", " ", "g", "o", "t", "o", " ", "A", "l", "i", "v", "e", ";", " ",
      "}", "\n", "n", "o", "d", "e", " ", "F", "a", "l", "l", " ", "{", "\n",
      " ", " ", "i", "f", " ", "(", "h", "p", " ", "<", "=", " ", "0", ")",
      " ", "g", "o", "t", "o", " ", "D", "e", "a", "d", ";", "\n", " ", " ",
      "s", "h", "o", "w", " ", "\"", "s", "t", "i", "l", "l", " ", "$", "{",
      "h", "p", "}", "\"", ";", "\n", " ", " ", "s", "e", "t", " ", "h", "p",
      " ", "=", " ", "3", " ", "*", " ", "-", "2", ";", "\n", " ", " ", "s",
      "e", "t", " ", "n", "e", "g", " ", "=", " ", "-", "5", ";", "\n", " ",
      " ", "s", "e", "t", " ", "f", "r", "e", "s", "h", " ", "=", " ", "h",
      "p", " ", "+", " ", "2", ";", "\n", " ", " ", "s", "h", "o", "w", " ",
      "\"", "n", "o", "w", " ", "$", "{", "h", "p", "}", " ", "$", "{", "n",
      "e", "g", "}", "\"", ";", "\n", "}", "\n", "n", "o", "d", "e", " ",
      "D", "e", "a", "d", " ", "{", " ", "l", "i", "n", "e", " ", "\"", "d",
      "e", "a", "d", "\"", ";", " ", "e", "n", "d", ";", " ", "}", "\n", "n",
      "o", "d", "e", " ", "A", "l", "i", "v", "e", " ", "{", " ", "l", "i",
      "n", "e", " ", "\"", "a", "l", "i", "v", "e", "\"", ";", " ", "}",
      "\n">>

\* the declarations of the scope script: "int g = 0;", class C with a
\* field f = 2 and "void report() { print(g); }", instances x and y of
\* C, a "new" of a class D that is not declared; node Start jumps to
\* Main; Main sets g, calls x.report(), calls a method of an instance
\* that does not exist and a method C does not have, sets x.f, shows and
\* branches to Menu; Menu has choices to Last, to Tail and to a node
\* that is not declared; Tail sets g and jumps to a node that is not
\* declared; Last sets g to a literal of twenty digits; a second node
\* Start is declared last, with a text.
ScopeDecls ==
    <<"i", "n", "t", " ", "g", " ", "=", " ", "0", ";", "\n", "c", "l", "a",
      "s", "s", " ", "C", " ", "{", "\n", " ", " ", "i", "n", "t", " ", "f",
      " ", "=", " ", "2", ";", "\n", " ", " ", "v", "o", "i", "d", " ", "r",
      "e", "p", "o", "r", "t", "(", ")", " ", "{", " ", "p", "r", "i", "n",
      "t", "(", "g", ")", ";", " ", "}", "\n", "}", "\n", "n", "e", "w", " ",
      "C", " ", "x", ";", "\n", "n", "e", "w", " ", "C", " ", "y", ";", "\n",
      "n", "e", "w", " ", "D", " ", "z", ";", "\n", "n", "o", "d", "e", " ",
      "S", "t", "a", "r", "t", " ", "{", " ", "g", "o", "t", "o", " ", "M",
      "a", "i", "n", ";", " ", "}", "\n", "n", "o", "d", "e", " ", "M", "a",
      "i", "n", " ", "{", "\n", " ", " ", "s", "e", "t", " ", "g", " ", "=",
      " ", "7", ";", "\n", " ", " ", "x", ".", "r", "e", "p", "o", "r", "t",
      "(", ")", ";", "\n", " ", " ", "g", "h", "o", "s", "t", ".", "r", "e",
      "p", "o", "r", "t", "(", ")", ";", "\n", " ", " ", "x", ".", "h", "e",
      "a", "l", "(", "1", ")", ";", "\n", " ", " ", "s", "e", "t", " ", "x",
      ".", "f", " ", "=", " ", "9", ";", "\n", " ", " ", "s", "h", "o", "w",
      " ", "\"", "g", " ", "$", "{", "g", "}", " ", "x", "f", " ", "$", "{",
      "x", ".", "f", "}", " ", "y", "f", " ", "$", "{", "y", ".", "f", "}",
      "\"", ";", "\n", " ", " ", "i", "f", " ", "(", "g", " ", ">", " ", "0",
      ")", " ", "g", "o", "t", "o", " ", "M", "e", "n", "u", ";", "\n", "}",
      "\n", "n", "o", "d", "e", " ", "M", "e", "n", "u", " ", "{", "\n", " ",
      " ", "l", "i", "n", "e", " ", "\"", "m", "e", "n", "u", " ", "$", "{",
      "g", "}", "\"", ";", "\n", " ", " ", "c", "h", "o", "i", "c", "e", " ",
      "1", ":", " ", "\"", "o", "n", "\"", " ", "-", ">", " ", "L", "a", "s",
      "t", ";", "\n", " ", " ", "c", "h", "o", "i", "c", "e", " ", "2", ":",
      " ", "\"", "o", "f", "f", "\"", " ", "-", ">", " ", "N", "o", "w", "h",
      "e", "r", "e", ";", "\n", " ", " ", "c", "h", "o", "i", "c", "e", " ",
      "3", ":", " ", "\"", "t", "a", "i", "l", "\"", " ", "-", ">", " ", "T",
      "a", "i", "l", ";", "\n", "}", "\n", "n", "o", "d", "e", " ", "T", "a",
      "i", "l", " ", "{", " ", "s", "e", "t", " ", "g", " ", "=", " ", "g",
      " ", "+", " ", "1", ";", " ", "g", "o", "t", "o", " ", "M", "i", "s",
      "s", "i", "n", "g", ";", " ", "}", "\n", "n", "o", "d", "e", " ", "L",
      "a", "s", "t", " ", "{", "\n", " ", " ", "s", "e", "t", " ", "g", " ",
      "=", " ", "9", "9", "9", "9", "9", "9", "9", "9", "9", "9", "9", "9",
      "9", "9", "9", "9", "9", "9", "9", "9", ";", "\n", " ", " ", "e", "n",
      "d", ";", "\n", "}", "\n", "n", "o", "d", "e", " ", "S", "t", "a", "r",
      "t", " ", "{", " ", "l", "i", "n", "e", " ", "\"", "a", "g", "a", "i",
      "n", "\"", ";", " ", "g", "o", "t", "o", " ", "M", "a", "i", "n", ";",
      " ", "}", "\n">>

\* scope: an identifier that is no keyword, then the declarations
ScopeScript == <<"o", "o", "p", "s", " ">> \o ScopeDecls

\* methods: class C with a field f and methods whose parameters name a
\* global (setg), a field (setf, inner), methods that call another
\* instance (outer), assign a field twice (twice), jump (jump), take two
\* parameters (two) and end the dialogue (stop); node Start calls them,
\* has an inline new and goes to node Other.
MethodScript ==
    <<"i", "n", "t", " ", "g", " ", "=", " ", "0", ";", "\n", "i", "n", "t",
      " ", "a", " ", "=", " ", "0", ";", "\n", "c", "l", "a", "s", "s", " ",
      "C", " ", "{", "\n", " ", " ", "i", "n", "t", " ", "f", " ", "=", " ",
      "1", ";", "\n", " ", " ", "v", "o", "i", "d", " ", "s", "e", "t", "g",
      "(", "g", ")", " ", "{", " ", "p", "r", "i", "n", "t", "(", "g", ")",
      ";", " ", "}", "\n", " ", " ", "v", "o", "i", "d", " ", "s", "e", "t",
      "f", "(", "f", ")", " ", "{", " ", "p", "r", "i", "n", "t", "(", "f",
      ")", ";", " ", "}", "\n", " ", " ", "v", "o", "i", "d", " ", "i", "n",
      "n", "e", "r", "(", "f", ")", " ", "{", " ", "}", "\n", " ", " ", "v",
      "o", "i", "d", " ", "o", "u", "t", "e", "r", "(", ")", " ", "{", " ",
      "y", ".", "i", "n", "n", "e", "r", "(", "5", ")", ";", " ", "}", "\n",
      " ", " ", "v", "o", "i", "d", " ", "t", "w", "i", "c", "e", "(", ")",
      " ", "{", " ", "s", "e", "t", " ", "f", " ", "=", " ", "f", " ", "-",
      " ", "1", ";", " ", "s", "e", "t", " ", "f", " ", "=", " ", "f", " ",
      "-", " ", "1", ";", " ", "}", "\n", " ", " ", "v", "o", "i", "d", " ",
      "j", "u", "m", "p", "(", ")", " ", "{", " ", "i", "f", " ", "(", "f",
      " ", ">", " ", "0", ")", " ", "g", "o", "t", "o", " ", "O", "t", "h",
      "e", "r", ";", " ", "i", "f", " ", "(", "f", " ", ">", " ", "9", ")",
      " ", "g", "o", "t", "o", " ", "O", "t", "h", "e", "r", " ", "e", "l",
      "s", "e", " ", "g", "o", "t", "o", " ", "S", "t", "a", "r", "t", ";",
      " ", "g", "o", "t", "o", " ", "O", "t", "h", "e", "r", ";", " ", "}",
      "\n", " ", " ", "v", "o", "i", "d", " ", "t", "w", "o", "(", "a", ",",
      " ", "q", ")", " ", "{", " ", "p", "r", "i", "n", "t", "(", "a", ")",
      ";", " ", "p", "r", "i", "n", "t", "(", "q", ")", ";", " ", "}", "\n",
      " ", " ", "v", "o", "i", "d", " ", "s", "t", "o", "p", "(", ")", " ",
      "{", " ", "e", "n", "d", ";", " ", "p", "r", "i", "n", "t", "(", "f",
      ")", ";", " ", "}", "\n", "}", "\n", "n", "e", "w", " ", "C", " ", "x",
      ";", "\n", "n", "e", "w", " ", "C", " ", "y", ";", "\n", "n", "o", "d",
      "e", " ", "S", "t", "a", "r", "t", " ", "{", "\n", " ", " ", "x", ".",
      "s", "e", "t", "g", "(", "5", ")", ";", "\n", " ", " ", "s", "h", "o",
      "w", " ", "\"", "g", " ", "$", "{", "g", "}", "\"", ";", "\n", " ",
      " ", "x", ".", "s", "e", "t", "f", "(", "7", ")", ";", "\n", " ", " ",
      "x", ".", "o", "u", "t", "e", "r", "(", ")", ";", "\n", " ", " ", "x",
      ".", "t", "w", "i", "c", "e", "(", ")", ";", "\n", " ", " ", "s", "h",
      "o", "w", " ", "\"", "x", "f", " ", "$", "{", "x", ".", "f", "}", " ",
      "y", "f", " ", "$", "{", "y", ".", "f", "}", "\"", ";", "\n", " ", " ",
      "x", ".", "j", "u", "m", "p", "(", ")", ";", "\n", " ", " ", "x", ".",
      "t", "w", "o", "(", "1", ")", ";", "\n", " ", " ", "x", ".", "t", "w",
      "o", "(", "0", ",", " ", "1", ")", ";", "\n", " ", " ", "x", ".", "t",
      "w", "o", "(", "1", ",", " ", "1", ",", " ", "1", ")", ";", "\n", " ",
      " ", "x", ".", "t", "w", "o", "(", ")", ";", "\n", " ", " ", "n", "e",
      "w", " ", "C", " ", "z", ";", "\n", " ", " ", "z", ".", "t", "w", "o",
      "(", "1", ",", " ", "1", ")", ";", "\n", " ", " ", "x", ".", "s", "t",
      "o", "p", "(", ")", ";", "\n", " ", " ", "s", "h", "o", "w", " ", "\"",
      "s", "t", "i", "l", "l", "\"", ";", "\n", " ", " ", "g", "o", "t", "o",
      " ", "O", "t", "h", "e", "r", ";", "\n", "}", "\n", "n", "o", "d", "e",
      " ", "O", "t", "h", "e", "r", " ", "{", "\n", " ", " ", "l", "i", "n",
      "e", " ", "\"", "o", "t", "h", "e", "r", " ", "$", "{", "g", "}", " ",
      "$", "{", "a", "}", "\"", ";", "\n", " ", " ", "e", "n", "d", ";",
      "\n", "}", "\n">>

\* render: an integer and a boolean both named k, a boolean, a string
\* and integers; node Start assigns from bare identifiers and shows the
\* text of a node line.
RenderScript ==
    <<"i", "n", "t", " ", "n", " ", "=", " ", "3", ";", "\n", "i", "n", "t",
      " ", "k", " ", "=", " ", "5", ";", "\n", "m", "a", "t", "c", "h", " ",
      "k", " ", "=", " ", "t", "r", "u", "e", ";", "\n", "m", "a", "t", "c",
      "h", " ", "o", "n", " ", "=", " ", "f", "a", "l", "s", "e", ";", "\n",
      "s", "t", "r", "i", "n", "g", " ", "s", " ", "=", " ", "\"", "h", "i",
      "\"", ";", "\n", "i", "n", "t", " ", "d", " ", "=", " ", "k", " ", "+",
      " ", "1", ";", "\n", "n", "o", "d", "e", " ", "S", "t", "a", "r", "t",
      " ", "{", "\n", " ", " ", "l", "i", "n", "e", " ", "\"", "[", "@", "Y",
      "o", "u", "]", " ", "d", " ", "$", "{", "d", "}", " ", "o", "n", " ",
      "$", "{", "o", "n", "}", " ", "s", " ", "$", "{", "s", "}", "\"", ";",
      "\n", " ", " ", "s", "e", "t", " ", "r", " ", "=", " ", "k", ";", "\n",
      " ", " ", "s", "e", "t", " ", "r", " ", "=", " ", "n", ";", "\n", " ",
      " ", "s", "e", "t", " ", "r", " ", "=", " ", "n", "o", "p", "e", ";",
      "\n", " ", " ", "s", "e", "t", " ", "k", " ", "=", " ", "0", ";", "\n",
      " ", " ", "s", "e", "t", " ", "r", " ", "=", " ", "k", ";", "\n", " ",
      " ", "s", "e", "t", " ", "o", "n", " ", "=", " ", "1", ";", "\n", " ",
      " ", "s", "e", "t", " ", "n", " ", "=", " ", "n", " ", "+", " ", "1",
      ";", "\n", " ", " ", "s", "h", "o", "w", " ", "\"", "[", "@", "Y", "o",
      "u", "]", " ", "n", " ", "$", "{", "n", "}", " ", "o", "n", " ", "$",
      "{", "o", "n", "}", " ", "s", " ", "$", "{", "s", "}", "\"", ";", "\n",
      " ", " ", "s", "h", "o", "w", " ", "\"", "n", " ", "$", "{", "n", "}",
      " ", "r", " ", "$", "{", "r", "}", " ", "d", " ", "$", "{", "d", "}",
      "\"", ";", "\n", "}", "\n">>

\* tables: integer declarations that read names declared earlier, later
\* and again; class C whose methods ping and pong call each other; node
\* Start signals and tests names that do not exist, prints a text, a sum
\* and a difference, assigns a field of an object never instantiated,
\* calls a method of it and calls x.ping().
TableScript ==
    <<"i", "n", "t", " ", "a", " ", "=", " ", "b", " ", "+", " ", "1", ";",
      "\n", "i", "n", "t", " ", "b", " ", "=", " ", "4", ";", "\n", "i", "n",
      "t", " ", "c", " ", "=", " ", "b", " ", "+", " ", "a", ";", "\n", "i",
      "n", "t", " ", "b", " ", "=", " ", "7", ";", "\n", "c", "l", "a", "s",
      "s", " ", "C", " ", "{", "\n", " ", " ", "i", "n", "t", " ", "f", " ",
      "=", " ", "1", ";", "\n", " ", " ", "v", "o", "i", "d", " ", "p", "i",
      "n", "g", "(", ")", " ", "{", " ", "y", ".", "p", "o", "n", "g", "(",
      ")", ";", " ", "}", "\n", " ", " ", "v", "o", "i", "d", " ", "p", "o",
      "n", "g", "(", ")", " ", "{", " ", "x", ".", "p", "i", "n", "g", "(",
      ")", ";", " ", "}", "\n", "}", "\n", "n", "e", "w", " ", "C", " ", "x",
      ";", "\n", "n", "e", "w", " ", "C", " ", "y", ";", "\n", "n", "o", "d",
      "e", " ", "S", "t", "a", "r", "t", " ", "{", "\n", " ", " ", "s", "i",
      "g", "n", "a", "l", " ", "p", "i", "n", "g", " ", "=", " ", "n", "o",
      "p", "e", " ", "+", " ", "g", "h", "o", "s", "t", ".", "h", "p", ";",
      "\n", " ", " ", "i", "f", " ", "(", "n", "o", "p", "e", " ", ">", " ",
      "g", "h", "o", "s", "t", ".", "h", "p", ")", " ", "g", "o", "t", "o",
      " ", "S", "t", "a", "r", "t", ";", "\n", " ", " ", "p", "r", "i", "n",
      "t", "(", "\"", "h", "e", "l", "l", "o", "\"", ")", ";", "\n", " ",
      " ", "p", "r", "i", "n", "t", "(", "2", " ", "+", " ", "3", ")", ";",
      "\n", " ", " ", "p", "r", "i", "n", "t", "(", "a", " ", "-", " ", "1",
      ")", ";", "\n", " ", " ", "s", "e", "t", " ", "g", "h", "o", "s", "t",
      ".", "h", "p", " ", "=", " ", "3", ";", "\n", " ", " ", "s", "h", "o",
      "w", " ", "\"", "a", " ", "$", "{", "a", "}", " ", "b", " ", "$", "{",
      "b", "}", " ", "c", " ", "$", "{", "c", "}", " ", "h", "p", " ", "$",
      "{", "g", "h", "o", "s", "t", ".", "h", "p", "}", "\"", ";", "\n", " ",
      " ", "g", "h", "o", "s", "t", ".", "p", "i", "n", "g", "(", ")", ";",
      "\n", " ", " ", "x", ".", "p", "i", "n", "g", "(", ")", ";", "\n", " ",
      " ", "s", "h", "o", "w", " ", "\"", "b", "a", "c", "k", "\"", ";",
      "\n", "}", "\n">>

\* n copies of the text s in a row
RECURSIVE Repeat(_, _)
Repeat(s, n) == IF n <= 0 THEN <<>> ELSE s \o Repeat(s, n - 1)

\* a comment line, and the node the comment scripts end with
CommentLine == <<"/", "/", " ", "n", "o", "t", "e">> \o <<"\n">>

CommentTail ==
    <<"n", "o", "d", "e", " ", "S", "t", "a", "r", "t", " ", "{", " ", "s",
      "h", "o", "w", " ", "\"", "q", " ", "$", "{", "q", "}", "\"", ";", " ",
      "e", "n", "d", ";", " ", "}", "\n">>

\* comments: a declaration, then one comment line more than the stack
\* holds calls of next(), then a node
CommentScript ==
    <<"i", "n", "t", " ", "q", " ", "=", " ", "1", ";">> \o <<"\n">> \o Repeat(CommentLine, MaxLexDepth + 1) \o CommentTail

\* the same comment lines at the very start of the text
CommentFirstScript == Repeat(CommentLine, MaxLexDepth + 1) \o CommentTail

\* as many comment lines as the stack holds calls of next(), then a
\* declaration and a node
CommentFitScript ==
    Repeat(CommentLine, MaxLexDepth) \o <<"i", "n", "t", " ", "q", " ", "=", " ", "2", ";">> \o <<"\n">> \o CommentTail

Sources == {BattleScript, BranchScript, ScopeScript, MethodScript, RenderScript,
            TableScript, CommentScript, CommentFirstScript, CommentFitScript}

\* main(): the script is read, the parser is constructed (which reads the
\* first token), nothing is parsed yet; the constructor's call of next()
\* is the first the stack can run out under
Init ==
    /\ src \in Sources
    /\ \E first \in {LexNext(src, 1)} : lexer = first.p /\ tk = first.tok
    /\ prog = EmptyProgram
    /\ cerr = <<>>
    /\ cout = <<>>
    /\ phase = (IF nextDepth(src, 1) > MaxLexDepth THEN "done" ELSE "parse")
    /\ current = <<>>
    /\ vars = EmptyMap
    /\ boolVars = EmptyMap
    /\ at = "top"
    /\ pc = 0
    /\ input = [ok |-> TRUE, sel |-> -1]
    /\ halt = (IF nextDepth(src, 1) > MaxLexDepth THEN "crash" ELSE "")
    /\ expr = <<>>
    /\ result = 0

Spec == Init /\ [][Next]_varlist

\* ----------------------------------------------------------------------
\* The expression evaluator on its own
\* ----------------------------------------------------------------------

\* the integer literals of the expressions evaluated are 0..MaxLiteral
MaxLiteral == 2

Literals == {to_string(n) : n \in 0..MaxLiteral}

Operators == {<<"+">>, <<"-">>, <<"*">>, <<"/">>, <<"=", "=">>, <<"!", "=">>, <<"<">>, <<"<", "=">>, <<">">>, <<">", "=">>}

\* operand op operand, and operand op operand op operand
Flat2 == {<<a, o, b>> : a \in Literals, o \in Operators, b \in Literals}

Flat3 == {f \o <<o, c>> : f \in Flat2, o \in Operators, c \in Literals}

\* f with its i-th to j-th operands put in parentheses
Paren(f, i, j) ==
    SubSeq(f, 1, 2 * i - 2) \o <<<<"(">>>> \o SubSeq(f, 2 * i - 1, 2 * j - 1)
        \o <<<<")">>>> \o SubSeq(f, 2 * j, Len(f))

\* f as it is and with each run of two or more operands in parentheses
Groupings(f) ==
    {f} \cup {Paren(f, r[1], r[2]) :
                 r \in {q \in (1..Len(f)) \X (1..Len(f)) :
                           q[1] < q[2] /\ 2 * q[2] - 1 <= Len(f)}}

\* the expressions over non-negative literals, operators and parentheses
ArithExprs ==
    {<<a>> : a \in Literals} \cup {<<<<"(">>, a, <<")">>>> : a \in Literals}
        \cup UNION {Groupings(f) : f \in Flat2 \cup Flat3}

NegLiterals == {<<"-", "5">>, <<"-", "2">>}

\* dotted names: an object with the field, one without it, no such object
DottedNames ==
    {[obj |-> <<"h", "e", "r", "o">>, field |-> <<"h", "e", "a", "l", "t", "h">>], [obj |-> <<"h", "e", "r", "o">>, field |-> <<"m", "a", "n", "a">>],
     [obj |-> <<"g", "h", "o", "s", "t">>, field |-> <<"h", "e", "a", "l", "t", "h">>]}

DottedTok(d) == d.obj \o <<".">> \o d.field

SpecialOperands == NegLiterals \cup {DottedTok(d) : d \in DottedNames} \cup {<<"h", "p">>}

\* a negative literal or a name alone, and as the right operand of one
\* operator
SmallExprs ==
    {<<x>> : x \in SpecialOperands}
        \cup {<<a, o, x>> : a \in Literals \cup {<<"1", "2">>}, o \in Operators,
                            x \in SpecialOperands}

\* the object tables an expression is evaluated against
ObjectTables ==
    {EmptyMap,
     Put(EmptyMap, <<"h", "e", "r", "o">>, Put(EmptyMap, <<"h", "e", "a", "l", "t", "h">>, 7)),
     Put(EmptyMap, <<"h", "e", "r", "o">>, Put(Put(EmptyMap, <<"h", "e", "a", "l", "t", "h">>, 2), <<"m", "a", "n", "a">>, 3))}

\* the expression text: the tokens written one after the other
RECURSIVE Written(_)
Written(e) == IF e = <<>> THEN <<>> ELSE e[1] \o Written(Tail(e))

InitExpr ==
    /\ expr \in ArithExprs \cup SmallExprs
    /\ src = Written(expr)
    /\ lexer = 1
    /\ tk = Token("EOF", <<>>, 0)
    /\ prog \in {[EmptyProgram EXCEPT !.objects = o, !.vars = Put(EmptyMap, <<"h", "p">>, 5)] :
                    o \in IF expr \in SmallExprs THEN ObjectTables ELSE {EmptyMap}}
    /\ vars = prog.vars
    /\ boolVars = prog.boolVars
    /\ cerr = <<>>
    /\ cout = <<>>
    /\ phase = "expr"
    /\ current = <<>>
    /\ at = "top"
    /\ pc = 0
    /\ input = [ok |-> TRUE, sel |-> -1]
    /\ halt = ""
    /\ result = 0

\* the expression as a node action evaluates it (the right-hand side of
\* "set", the value of "signal", the condition of "if")
Evaluate ==
    /\ phase = "expr"
    /\ result' = evalExpressionString(src, vars, boolVars, prog.objects)
    /\ phase' = "evaluated"
    /\ UNCHANGED <<parseVars, prog, cerr, cout, current, vars, boolVars, at, pc,
                   input, halt, expr>>

\* the declaration "int it = <expression>;"
DeclText == <<"i", "n", "t", " ", "i", "t", " ", "=", " ">> \o src \o <<";">>

\* the expression as the initialiser of a top-level int declaration:
\* Parser::parseVarDecl on the declaration, the value it stores
Declare ==
    /\ phase = "expr"
    /\ \E toks \in {LexN(DeclText, 1, Len(DeclText) + 1)} :
       \E ps \in {parseVarDecl(toks, [NewParser(toks) EXCEPT !.prog = prog])} :
           /\ prog' = ps.prog
           /\ cerr' = ps.err
           /\ result' = ps.prog.vars[<<"i", "t">>]
    /\ phase' = "declared"
    /\ UNCHANGED <<parseVars, cout, current, vars, boolVars, at, pc, input, halt, expr>>

NextExpr == Evaluate \/ Declare

SpecExpr == InitExpr /\ [][NextExpr]_varlist

\* The reference value of an expression over literals: three tiers of
\* binary operators, comparison below additive below multiplicative, each
\* tier grouping left to right, and parentheses
RefDigit(c) == CHOOSE d \in 0..9 : <<"0", "1", "2", "3", "4", "5", "6", "7", "8", "9">>[d + 1] = c

RECURSIVE RefDigits(_)
RefDigits(t) ==
    IF t = <<>> THEN 0
    ELSE 10 * RefDigits(SubSeq(t, 1, Len(t) - 1)) + RefDigit(t[Len(t)])

RefNumber(t) == IF t[1] = "-" THEN 0 - RefDigits(Tail(t)) ELSE RefDigits(t)

RefTier(level) ==
    IF level = 1 THEN {<<"=", "=">>, <<"!", "=">>, <<"<">>, <<"<", "=">>, <<">">>, <<">", "=">>}
    ELSE IF level = 2 THEN {<<"+">>, <<"-">>}
    ELSE {<<"*">>, <<"/">>}

\* the quotient rounded toward zero, and 0 when the divisor is 0
RefQuotient(a, b) ==
    IF b = 0 THEN 0
    ELSE CHOOSE q \in -Abs(a)..Abs(a) :
             /\ Abs(q) * Abs(b) <= Abs(a) /\ Abs(a) < (Abs(q) + 1) * Abs(b)
             /\ (q # 0 => ((q > 0) <=> ((a > 0) = (b > 0))))

RefApply(o, a, b) ==
    IF o = <<"+">> THEN a + b
    ELSE IF o = <<"-">> THEN a - b
    ELSE IF o = <<"*">> THEN a * b
    ELSE IF o = <<"/">> THEN RefQuotient(a, b)
    ELSE IF (\/ o = <<"=", "=">> /\ a = b
             \/ o = <<"!", "=">> /\ a # b
             \/ o = <<"<">> /\ a < b
             \/ o = <<"<", "=">> /\ a <= b
             \/ o = <<">">> /\ a > b
             \/ o = <<">", "=">> /\ a >= b) THEN 1
    ELSE 0

\* RefLevel(e, i, level): [v, i], the value of the longest expression of
\* that tier or a higher one that starts at token i, and the index after it
RECURSIVE RefLevel(_, _, _)
RECURSIVE RefLoop(_, _, _)

RefCombine(e, left, right, level) ==
    RefLoop(e, [v |-> RefApply(e[left.i], left.v, right.v), i |-> right.i], level)

RefLoop(e, left, level) ==
    IF left.i <= Len(e) /\ e[left.i] \in RefTier(level)
    THEN RefCombine(e, left, RefLevel(e, left.i + 1, level + 1), level)
    ELSE left

RefAfterParen(r) == [r EXCEPT !.i = @ + 1]

RefLevel(e, i, level) ==
    IF level <= 3 THEN RefLoop(e, RefLevel(e, i, level + 1), level)
    ELSE IF e[i] = <<"(">> THEN RefAfterParen(RefLevel(e, i + 1, 1))
    ELSE [v |-> RefNumber(e[i]), i |-> i + 1]

RefValue(e) == RefLevel(e, 1, 1).v

\* ----------------------------------------------------------------------
\* Properties
\* ----------------------------------------------------------------------

\* the method calls of the battle script and their argument
AttackCalls ==
    {[stmt |-> <<"S", "T", "M", "T", " ", "h", "e", "r", "o", ".", "a", "t", "t", "a", "c", "k", "(", "1", ")">>, n |-> 1],
     [stmt |-> <<"S", "T", "M", "T", " ", "h", "e", "r", "o", ".", "a", "t", "t", "a", "c", "k", "(", "3", ")">>, n |-> 3]}

\* C1: a node statement hero.attack(n), where the class of hero declares
\* "void attack(amount) { set health = health - amount; }", lowers
\* hero.health by n and leaves the health of the other instance as it was.
C1_AttackLowersHealth ==
    [][\A c \in AttackCalls :
          (src = BattleScript /\ AtAction /\ CurAct = c.stmt) =>
              /\ prog'.objects[<<"h", "e", "r", "o">>][<<"h", "e", "a", "l", "t", "h">>] = prog.objects[<<"h", "e", "r", "o">>][<<"h", "e", "a", "l", "t", "h">>] - c.n
              /\ prog'.objects[<<"o", "r", "c">>][<<"h", "e", "a", "l", "t", "h">>] = prog.objects[<<"o", "r", "c">>][<<"h", "e", "a", "l", "t", "h">>]]_varlist

\* C2: a node whose first action is "if (c) goto Dead else goto Alive;",
\* where c says hp <= 0, is left for Dead when hp <= 0 and for Alive
\* otherwise; "if (hp <= 0) goto Dead;" with hp > 0 leaves the node current
\* and the next action of the list is the one to run.
C2_IfTakesItsBranch ==
    [][(src = BranchScript /\ AtAction /\ pc = 1) =>
          /\ current \in {<<"C", "h", "e", "c", "k">>, <<"P", "a", "r", "e", "n">>} =>
                 current' = IF vars[<<"h", "p">>] <= 0 THEN <<"D", "e", "a", "d">> ELSE <<"A", "l", "i", "v", "e">>
          /\ (current = <<"F", "a", "l", "l">> /\ vars[<<"h", "p">>] > 0) =>
                 (current' = current /\ at' = "acts" /\ pc' = 2)]_varlist

\* C3: the step that executes "end", wherever it stands in the list of a
\* node, stops the run, changing no variable and no object, and no step
\* follows in a run stopped by "end".
C3_EndHaltsAtOnce ==
    [][/\ (AtAction /\ CurAct = <<"E", "N", "D">>) =>
              (/\ halt' = "END" /\ phase' = "done"
               /\ UNCHANGED <<prog, vars, boolVars, current, pc>>)
       /\ halt = "END" => FALSE]_varlist

\* "end" stopped the run of the battle script in node Heavy, with actions
\* of the list still after it
C3_Witness ==
    /\ halt = "END" /\ src = BattleScript /\ current = <<"H", "e", "a", "v", "y">>
    /\ pc < Len(prog.nodes[current].actions)

\* the run is at a node that declares a choice
HasChoices ==
    phase = "run" /\ current \in DOMAIN prog.nodes /\ prog.nodes[current].choices # <<>>

\* C4: at a node with a choice, no step changes a variable or an object or
\* stops the run, none runs an action of the node's list, and the node is
\* left only for the target of one of its choices.
C4_ChoicesPreemptActions ==
    [][HasChoices =>
          /\ UNCHANGED <<prog, vars, boolVars, phase, halt>>
          /\ at' # "acts"
          /\ \/ current' = current
             \/ /\ at' = "top"
                /\ \E i \in DOMAIN prog.nodes[current].choices :
                       current' = prog.nodes[current].choices[i].target]_varlist

\* node Start of the battle script, whose list holds "set hp = 0;" and
\* "end;", was left through choice 3 with hp as declared
C4_Witness ==
    /\ src = BattleScript /\ phase = "run" /\ current = <<"D", "e", "a", "d">> /\ at = "top"
    /\ input = [ok |-> TRUE, sel |-> 3]
    /\ vars[<<"h", "p">>] = 5

\* the ids of the choices a node declares
ChoiceIds(node) == {node.choices[i].id : i \in DOMAIN node.choices}

\* the first choice of the node with that id
FirstChoice(node, id) ==
    node.choices[CHOOSE i \in DOMAIN node.choices :
                     /\ node.choices[i].id = id
                     /\ \A j \in 1..(i - 1) : node.choices[j].id # id]

\* C5: at the prompt of a node, an input that is no number or the id of
\* none of its choices leaves the node, the variables and the objects as
\* they were, and the prompt open; an input that is the id of a choice
\* makes that choice's target the current node.
C5_InvalidInputReprompts ==
    [][(phase = "run" /\ at = "prompt") =>
          IF input'.ok /\ input'.sel \in ChoiceIds(prog.nodes[current])
          THEN /\ current' = FirstChoice(prog.nodes[current], input'.sel).target
               /\ at' = "top"
          ELSE UNCHANGED <<current, prog, vars, boolVars, at, phase, halt>>]_varlist

\* the prompt of node Start is open again after an input that was no number
C5_Witness ==
    /\ phase = "run" /\ at = "prompt" /\ current = <<"S", "t", "a", "r", "t">>
    /\ ~input.ok
    /\ cout = <<<<"C", "h", "o", "o", "s", "e", ":", " ">>, <<"I", "n", "v", "a", "l", "i", "d">>>>

\* the name a "SET" action assigns to has no dot, and its expression is
\* one stoll converts
UndottedSet ==
    /\ AtAction
    /\ StartsAt(CurAct, 1, <<"S", "E", "T", " ">>)
    /\ "." \notin Range(NameAndExpr(From(CurAct, 5)).name)
    /\ ~Throws(CurAct)

\* the value of the expression of the "SET" action about to run
SetValue ==
    evalExpressionString(NameAndExpr(From(CurAct, 5)).expr, vars, boolVars, prog.objects)

\* C6: a node-level "set name = expr" with an undotted name makes the
\* boolean name true exactly when expr is not 0, the integers unchanged,
\* if name is a boolean variable; otherwise it makes the integer name the
\* value of expr, the booleans unchanged.
C6_SetBoolOrInt ==
    [][UndottedSet =>
          IF NameAndExpr(From(CurAct, 5)).name \in DOMAIN boolVars
          THEN /\ boolVars' = Put(boolVars, NameAndExpr(From(CurAct, 5)).name, SetValue # 0)
               /\ vars' = vars
          ELSE /\ vars' = Put(vars, NameAndExpr(From(CurAct, 5)).name, SetValue)
               /\ boolVars' = boolVars]_varlist

\* "set alarm = hp - 1;" made the boolean alarm, declared false, true, and
\* no integer alarm exists
C6_Witness ==
    /\ src = BattleScript /\ phase = "run"
    /\ boolVars[<<"a", "l", "a", "r", "m">>]
    /\ <<"a", "l", "a", "r", "m">> \notin DOMAIN vars

C8_NegativeLiteralValue ==
    (phase \in {"evaluated", "declared"}) =>
        /\ (Len(expr) = 1 /\ expr[1] \in NegLiterals) => result = RefNumber(expr[1])
        /\ (Len(expr) = 3 /\ expr[3] \in NegLiterals) =>
               result = RefApply(expr[2], RefNumber(expr[1]), RefNumber(expr[3]))

\* C9: a quotient with a zero divisor is 0, whatever the dividend, and the
\* expression around it goes on with that 0.
C9_ZeroDivisorGivesZero ==
    (phase = "evaluated" /\ expr \in ArithExprs) =>
        /\ (Len(expr) = 3 /\ expr[2] = <<"/">> /\ expr[3] = <<"0">>) => result = 0
        /\ (Len(expr) = 5 /\ expr[2] \in {<<"+">>, <<"-">>} /\ expr[4] = <<"/">> /\ expr[5] = <<"0">>) =>
               result = RefNumber(expr[1])
        /\ (Len(expr) = 5 /\ expr[2] = <<"/">> /\ expr[3] = <<"0">> /\ expr[4] = <<"+">>) =>
               result = RefNumber(expr[5])
        /\ (/\ Len(expr) = 7 /\ expr[2] = <<"/">> /\ expr[3] = <<"(">> /\ expr[5] = <<"-">>
            /\ expr[4] = expr[6]) => result = 0

\* "1+2/0" was evaluated, to 1
C9_Witness ==
    phase = "evaluated" /\ expr = <<<<"1">>, <<"+">>, <<"2">>, <<"/">>, <<"0">>>> /\ result = 1

\* the stored value of the field a dotted name says, 0 with no such object
\* or no such field
Stored(d) ==
    IF d.obj \notin DOMAIN prog.objects THEN 0
    ELSE IF d.field \notin DOMAIN prog.objects[d.obj] THEN 0
    ELSE prog.objects[d.obj][d.field]

\* the value of every dotted name alone, and as the right operand of an
\* operator, is as if the name read v(d)
DottedReadsAs(v(_)) ==
    \A d \in DottedNames :
        /\ expr = <<DottedTok(d)>> => result = v(d)
        /\ (Len(expr) = 3 /\ expr[3] = DottedTok(d)) =>
               result = RefApply(expr[2], RefNumber(expr[1]), v(d))

NoValue(d) == 0

\* C10 as the specification states it: every dotted reference obj.field in
\* an expression yields the stored value of the field, and 0 when the
\* object or the field is absent.
C10_DottedReadsField ==
    (phase \in {"evaluated", "declared"}) => DottedReadsAs(Stored)

\* C10, amended: a dotted reference in an expression a node action
\* evaluates yields the stored value of the field, and 0 when the object or
\* the field is absent; in the initialiser of an int declaration it yields
\* 0 whether or not the object has the field.
C10_DottedReadsFieldAtRunTime ==
    /\ phase = "evaluated" => DottedReadsAs(Stored)
    /\ phase = "declared" => DottedReadsAs(NoValue)

\* "hero.health" was evaluated by a node action, to the 7 that is stored
C10_Witness ==
    /\ phase = "evaluated" /\ expr = <<<<"h", "e", "r", "o", ".", "h", "e", "a", "l", "t", "h">>>> /\ result = 7
    /\ prog.objects[<<"h", "e", "r", "o">>][<<"h", "e", "a", "l", "t", "h">>] = 7

\* ----------------------------------------------------------------------
\* The ${...} substitution loops on their own: a text is rendered one
\* round of the loop at a time, as node text or as the text of a show.
\* ----------------------------------------------------------------------

\* a bound on the number of pieces a text is made of
MaxPieces == 2

\* the pieces of the texts
TextPieces == {<<"$", "{", "s", "}">>, <<"$", "{", "h", "p", "}">>, <<"$", "{">>, <<"}">>, <<"$">>, <<"{">>, <<"s">>}

\* the texts made of n pieces at most
RECURSIVE TextsOf(_)
TextsOf(n) ==
    IF n = 0 THEN {<<>>}
    ELSE TextsOf(n - 1) \cup {t \o x : t \in TextsOf(n - 1), x \in TextPieces}

\* the values the string variable s is declared with
StringValues == {<<>>, <<"$", "{", "s", "}">>, <<"$", "{", "h", "p", "}">>, <<"a", "}">>}

\* runProgram is about to run the substitution loop of a node text
\* ("nodetext") or of a show ("showtext") on the text src, from its start
InitSubst ==
    /\ src \in TextsOf(MaxPieces)
    /\ expr = <<src>>
    /\ lexer = 1
    /\ tk = Token("EOF", <<>>, 0)
    /\ phase \in {"nodetext", "showtext"}
    /\ at = phase
    /\ prog \in {[EmptyProgram EXCEPT !.stringVars = Put(EmptyMap, <<"s">>, v),
                                      !.vars = Put(EmptyMap, <<"h", "p">>, 5)] :
                    v \in IF phase = "showtext" THEN StringValues ELSE {<<>>}}
    /\ vars = Put(EmptyMap, <<"h", "p">>, 12)
    /\ boolVars = EmptyMap
    /\ cerr = <<>>
    /\ cout = <<>>
    /\ current = <<>>
    /\ pc = 0
    /\ input = [ok |-> TRUE, sel |-> -1]
    /\ halt = ""
    /\ result = 0

\* one round of the loop: the search position is lexer; the loop is left
\* when no marker with a "}" after it is found
Substitute ==
    /\ phase \in {"nodetext", "showtext"}
    /\ \E r \in {IF phase = "nodetext"
                 THEN nodeTextOnce(src, lexer, vars, boolVars, prog.objects)
                 ELSE showOnce(src, lexer, prog, vars, prog.objects)} :
           /\ src' = r.text
           /\ lexer' = r.pos
           /\ phase' = IF r.more THEN phase ELSE "rendered"
    /\ UNCHANGED <<tk, prog, cerr, cout, current, vars, boolVars, at, pc, input,
                   halt, expr, result>>

\* the loop runs on while it is not left
SpecSubst == InitSubst /\ [][Substitute]_varlist /\ WF_varlist(Substitute)

\* the shows of the scripts whose markers name integer variables and
\* fields, with the line each must write
IntShows ==
    {[act |-> <<"S", "H", "O", "W", " ", "s", "t", "i", "l", "l", " ", "$", "{", "h", "p", "}">>,
      line |-> <<"s", "t", "i", "l", "l", " ">> \o to_string(At(vars, <<"h", "p">>, 0))],
     [act |-> <<"S", "H", "O", "W", " ", "n", "o", "w", " ", "$", "{", "h", "p", "}", " ", "$", "{", "n", "e", "g", "}">>,
      line |-> <<"n", "o", "w", " ">> \o to_string(At(vars, <<"h", "p">>, 0)) \o <<" ">> \o to_string(At(vars, <<"n", "e", "g">>, 0))],
     [act |-> <<"S", "H", "O", "W", " ", "g", " ", "$", "{", "g", "}", " ", "x", "f", " ", "$", "{", "x", ".", "f", "}", " ", "y", "f", " ", "$", "{", "y", ".", "f", "}">>,
      line |-> <<"g", " ">> \o to_string(At(vars, <<"g">>, 0)) \o <<" ", "x", "f", " ", "9", " ", "y", "f", " ", "2">>]}

\* C11: a marker ${v} that names an integer variable is written, in the
\* text of a node and in the text of a show, as the decimal value v holds
\* when the text is rendered; that value changes only when a node-level
\* "set" is executed.
C11_MarkerShowsCurrentValue ==
    [][/\ (phase = "run" /\ at = "top" /\ src = BranchScript /\ current = <<"S", "t", "a", "r", "t">>) =>
              cout'[1] = <<"[", "A", "n", "d", "r", "e", "w", "]", " ", "h", "p", " ">> \o to_string(vars[<<"h", "p">>])
       /\ (phase = "run" /\ at = "top" /\ src = ScopeScript /\ current = <<"M", "e", "n", "u">>) =>
              cout'[1] = <<"m", "e", "n", "u", " ">> \o to_string(vars[<<"g">>])
       /\ \A s \in IntShows :
              (AtAction /\ CurAct = s.act) =>
                  cout' = <<s.line>>
       /\ (phase = "run" /\ vars' # vars) =>
              (AtAction /\ StartsAt(CurAct, 1, <<"S", "E", "T", " ">>))]_varlist

\* node Start of the branch script was rendered again after "set hp = 5 -
\* hp" made hp 0
C11_Witness ==
    /\ src = BranchScript /\ phase = "run" /\ at = "prompt" /\ current = <<"S", "t", "a", "r", "t">>
    /\ vars[<<"h", "p">>] = 0
    /\ cout[1] = <<"[", "A", "n", "d", "r", "e", "w", "]", " ", "h", "p", " ", "0">>

\* the value the renderer in use substitutes for the marker ${name}
MarkerValue(name) ==
    IF at = "nodetext" THEN NodeTextValue(name, vars, boolVars, prog.objects)
    ELSE ShowValue(name, prog, vars, prog.objects)

\* the text with its markers replaced in one pass from left to right that
\* never looks at a value it has put in
RECURSIVE OnePass(_)
OnePass(text) ==
    LET p == Find(text, <<"$", "{">>, 1)
        q == Find(text, <<"}">>, p + 2)
    IN  IF p = 0 \/ q = 0 THEN text
        ELSE SubSeq(text, 1, p - 1) \o MarkerValue(SubSeq(text, p + 2, q - 1))
                 \o OnePass(From(text, q + 1))

\* C12: the substitution loop of a node text and of a show is left after
\* finitely many rounds, whatever the text and the variables, and what it
\* leaves is the text with each marker replaced once, no value that was
\* put in being substituted again.
C12_SubstitutionTerminates ==
    /\ <>(phase = "rendered")
    /\ [](phase = "rendered" => src = OnePass(expr[1]))

\* the show "${s}${hp}", with s a string variable whose value is "${s}",
\* was rendered as "${s}12"
C12_Witness ==
    /\ phase = "rendered" /\ at = "showtext"
    /\ expr = <<<<"$", "{", "s", "}", "$", "{", "h", "p", "}">>>>
    /\ prog.stringVars[<<"s">>] = <<"$", "{", "s", "}">>
    /\ src = <<"$", "{", "s", "}", "1", "2">>

\* C13: a run stops in one of three ways only: "end" was executed, the
\* action list of a node without choices ended with no jump, or the
\* current node is not in the node table.
C13_StopsInThreeWaysOnly ==
    phase = "done" => halt \in {"END", "noedge", "unknown"}

\* the operator types, at an open prompt, the number of one of the choices
ValidChoice ==
    \E in \in Inputs :
        /\ in.ok
        /\ phase = "run" /\ at = "prompt"
        /\ ChoiceTarget(prog.nodes[current].choices, in.sel).ok
        /\ Choose(in)

\* the run is at an open prompt
Waiting == phase = "run" /\ at = "prompt"

\* the run as the process executes it: the parser and the interpreter
\* take their next step whenever they have one, which is while the run
\* has not stopped and waits at no prompt (weak fairness of their steps,
\* its enabling condition written out), and an open prompt is answered
\* with a valid selection in the end
SpecFair ==
    /\ Init /\ [][Next]_varlist
    /\ []<>(phase = "done" \/ Waiting) \/ []<><<~Waiting>>_varlist
    /\ WF_varlist(ValidChoice)

\* C14: every run, its prompts answered with a valid selection in the end,
\* reaches a terminal state.
C14_RunReachesTerminalState == <>(phase = "done")

\* C14, amended: every run, its prompts answered with a valid selection in
\* the end, stops or enters nodes again and again; it never stays within
\* one node for ever.
C14_RunStopsOrKeepsEnteringNodes ==
    <>(phase = "done") \/ []<><<EnterNode>>_varlist

\* the run of the branch script came back to the prompt of node Start
\* through node Hurt, which a run can do for ever
C14_Witness ==
    /\ src = BranchScript /\ phase = "run" /\ at = "prompt" /\ current = <<"S", "t", "a", "r", "t">>
    /\ input = [ok |-> TRUE, sel |-> 1]

\* the text of the node each script declares first, which is named Start
FirstNodeText ==
    IF src = BattleScript THEN <<"F", "i", "g", "h", "t", " ", "$", "{", "h", "e", "r", "o", ".", "h", "e", "a", "l", "t", "h", "}">>
    ELSE IF src = BranchScript THEN <<"[", "@", "Y", "o", "u", "]", " ", "h", "p", " ", "$", "{", "h", "p", "}">>
    ELSE <<>>

\* C15: when the script is parsed, the entry point names the node declared
\* first, and the node the run visits first has the body of that first
\* declaration, whatever is declared later.
C15_EntryIsFirstDeclaredNode ==
    phase \in {"run", "done"} =>
        /\ prog.entry = <<"S", "t", "a", "r", "t">>
        /\ prog.nodes[prog.entry].text = FirstNodeText
        /\ src = ScopeScript => prog.nodes[prog.entry].actions = <<<<"G", "O", "T", "O", " ", "M", "a", "i", "n">>>>

\* the nodes of the scripts that name a target no script declares
DanglingNodes == {<<"D", "e", "a", "d">>, <<"M", "e", "n", "u">>, <<"T", "a", "i", "l">>}

\* C16: a node whose goto, if or choice names a node that is not declared
\* is stored without a diagnostic; the run reports an unknown node only
\* when the current node is not in the table, which stops it at that
\* lookup, every variable and object as the jump left it.
C16_UnknownTargetStopsWhenTaken ==
    [][/\ \A n \in DanglingNodes :
              (phase = "parse" /\ n \notin DOMAIN prog.nodes /\ n \in DOMAIN prog'.nodes) =>
                  cerr' = <<>>
       /\ (phase = "run" /\ at = "top" /\ current \notin DOMAIN prog.nodes) =>
              /\ halt' = "unknown" /\ phase' = "done" /\ cerr' = <<"Unknown node">>
              /\ UNCHANGED <<prog, vars, boolVars>>
       /\ (phase = "run" /\ (halt' = "unknown" \/ cerr' = <<"Unknown node">>)) =>
              (at = "top" /\ current \notin DOMAIN prog.nodes)
       /\ (AtAction /\ CurAct = <<"G", "O", "T", "O", " ", "M", "i", "s", "s", "i", "n", "g">>) =>
              (current' = <<"M", "i", "s", "s", "i", "n", "g">> /\ UNCHANGED <<prog, vars, boolVars>>)]_varlist

\* the run of the scope script stopped at the lookup of Missing, the
\* target of the goto of node Tail, with g as Tail set it and x.f as Main
\* set it
C16_Witness ==
    /\ src = ScopeScript /\ halt = "unknown" /\ current = <<"M", "i", "s", "s", "i", "n", "g">>
    /\ vars[<<"g">>] = 8
    /\ prog.objects[<<"x">>][<<"f">>] = 9

\* the calls of the scope script on an instance that does not exist and of
\* a method the class does not have
FailingCalls == {<<"S", "T", "M", "T", " ", "g", "h", "o", "s", "t", ".", "r", "e", "p", "o", "r", "t", "(", ")">>, <<"S", "T", "M", "T", " ", "x", ".", "h", "e", "a", "l", "(", "1", ")">>}

\* C17: a call on an unknown instance, or of a method the class of the
\* instance does not have, changes no variable, no object, no class and
\* not the current node, does not stop the run, and the next action of the
\* list is the one to run.
C17_FailedCallIsSkipped ==
    [][(AtAction /\ CurAct \in FailingCalls) =>
          /\ UNCHANGED <<prog, vars, boolVars, current, at, phase, halt>>
          /\ pc' = pc + 1
          /\ cerr' # <<>>]_varlist

\* "x.heal(1);" was skipped in node Main of the scope script: the set
\* after it is the next action
C17_Witness ==
    /\ src = ScopeScript /\ phase = "run" /\ at = "acts" /\ current = <<"M", "a", "i", "n">>
    /\ cerr = <<"Runtime: no method">>
    /\ CurAct = <<"S", "E", "T", " ", "x", ".", "f", " ", "9">>

\* the parser has read the whole script
Parsed == phase = "parse" /\ tk.kind = "EOF"

\* C18: "new C x" with C declared gives x the fields of C with the values
\* C declares; an assignment to a field of x changes neither what C
\* declares nor the field of another instance of C; "new" of a class that
\* is not declared creates no object.
C18_NewCopiesDefaults ==
    /\ (src = ScopeScript /\ (Parsed \/ phase \in {"run", "done"})) =>
           /\ prog.classes[<<"C">>].fields = Put(EmptyMap, <<"f">>, 2)
           /\ prog.objects[<<"y">>] = Put(EmptyMap, <<"f">>, 2)
           /\ Parsed => prog.objects[<<"x">>] = Put(EmptyMap, <<"f">>, 2)
           /\ prog.objects[<<"x">>][<<"f">>] \in {2, 9}
           /\ <<"z">> \notin DOMAIN prog.objects
           /\ <<"z">> \notin DOMAIN prog.instanceClass
    /\ (src = BattleScript /\ (Parsed \/ phase \in {"run", "done"})) =>
           /\ prog.classes[<<"C">>].fields = Put(EmptyMap, <<"h", "e", "a", "l", "t", "h">>, 10)
           /\ prog.objects[<<"h", "e", "r", "o">>] = Put(EmptyMap, <<"h", "e", "a", "l", "t", "h">>, 10)
           /\ Parsed => prog.objects[<<"o", "r", "c">>] = Put(EmptyMap, <<"h", "e", "a", "l", "t", "h">>, 10)

\* "set x.f = 9;" was executed in the scope script: y.f is 2, as class C
\* declares f
C18_Witness ==
    /\ src = ScopeScript /\ phase = "run"
    /\ prog.objects[<<"x">>][<<"f">>] = 9
    /\ prog.objects[<<"y">>][<<"f">>] = 2

\* the parser after the whole loop of Parser::parse on the tokens toks
RECURSIVE ParsedFrom(_, _)
ParsedFrom(toks, ps) ==
    IF ps.tk.kind = "EOF" THEN ps ELSE ParsedFrom(toks, parseTop(toks, ps))

\* the program model Parser::parse builds of the script text
ProgramOf(text) ==
    ParsedFrom(LexN(text, 1, Len(text) + 1),
               NewParser(LexN(text, 1, Len(text) + 1))).prog

\* C19: an identifier at top level that is no keyword is reported and
\* skipped, it alone: the program model of the scope script, which starts
\* with such an identifier, is the program model of its declarations
\* without it.
C19_UnknownIdentifierIsSkipped ==
    /\ (src = ScopeScript /\ Parsed) => prog = ProgramOf(ScopeDecls)
    /\ (src = ScopeScript /\ phase = "parse" /\ prog = EmptyProgram /\ lexer > 5) =>
           /\ cerr = <<"unknown top-level keyword">>
           /\ tk = LexNext(ScopeDecls, 1).tok

\* the scope script is parsed: g, the class, the two instances and the
\* nodes that follow the unknown identifier are in the program model
C19_Witness ==
    /\ src = ScopeScript /\ Parsed
    /\ prog.vars = Put(EmptyMap, <<"g">>, 0)
    /\ DOMAIN prog.objects = {<<"x">>, <<"y">>}
    /\ DOMAIN prog.nodes = {<<"S", "t", "a", "r", "t">>, <<"M", "a", "i", "n">>, <<"M", "e", "n", "u">>, <<"T", "a", "i", "l">>, <<"L", "a", "s", "t">>}

\* C20: a method called from a node sees every global variable with the
\* value it has at the call: "x.report();", whose body is "print(g);",
\* prints true exactly when g is not 0 at the call.
C20_MethodSeesCurrentGlobals ==
    [][(src = ScopeScript /\ AtAction /\ CurAct = <<"S", "T", "M", "T", " ", "x", ".", "r", "e", "p", "o", "r", "t", "(", ")">>) =>
          cout' = <<IF vars[<<"g">>] # 0 THEN sTrue ELSE sFalse>>]_varlist

\* ----------------------------------------------------------------------
\* Properties of method calls
\* ----------------------------------------------------------------------

\* the action about to run is a method call statement that evaluates
AtCall ==
    /\ AtAction
    /\ ~Throws(CurAct)
    /\ StartsAt(CurAct, 1, <<"S", "T", "M", "T", " ">>)
    /\ DecodeCall(StmtOf(CurAct)).isCall

\* the call statement about to run, decoded
CallAt == DecodeCall(StmtOf(CurAct))

\* the argument values of the call statement about to run
CallArgs == ArgValues(CallAt.argsraw, vars, boolVars, prog.objects)

\* the call about to run finds its instance, its class and its method
Dispatches ==
    /\ AtCall
    /\ CallAt.inst \in DOMAIN prog.instanceClass
    /\ prog.instanceClass[CallAt.inst] \in DOMAIN prog.classes
    /\ CallAt.method \in DOMAIN prog.classes[prog.instanceClass[CallAt.inst]].methods

\* the class of the instance of the call about to run
CallClass == prog.classes[prog.instanceClass[CallAt.inst]]

\* the parameter names of the method of the call about to run
CallParams == At(CallClass.methodParams, CallAt.method, <<>>)

\* the positions at which the call about to run binds a parameter to an
\* argument
BoundPositions ==
    {i \in 1..Len(CallParams) : i <= Len(CallArgs)}

\* C21: after a method call returns, a global variable whose name is in
\* the method's scope holds the scope's final value, and the actions that
\* follow read that value: a parameter named like a global leaves its
\* argument in the global table and in the variables the node reads.
C21_GlobalsWrittenBackAreRead ==
    [][Dispatches =>
          \A i \in BoundPositions :
              CallParams[i] \in DOMAIN prog.vars =>
                  /\ prog'.vars[CallParams[i]] = CallArgs[i]
                  /\ At(vars', CallParams[i], 0) = CallArgs[i]]_varlist

\* C22: when a method returns, each field name of the instance's class
\* that is bound in the method's scope has, in the object, the scope's
\* final value: a parameter named like a field leaves its argument in
\* the field.
C22_FieldsWrittenBack ==
    [][Dispatches =>
          \A i \in BoundPositions :
              CallParams[i] \in DOMAIN CallClass.fields =>
                  fieldValue(prog'.objects, CallAt.inst, CallParams[i]) = CallArgs[i]]_varlist

\* C23: the field changes an inner call makes are in the object table
\* after the outer method returned: "x.outer();", whose body is
\* "y.inner(5);" with inner's parameter named like the field f, leaves
\* y.f = 5.
C23_InnerCallChangesSurvive ==
    [][(src = MethodScript /\ AtCall /\ CurAct = <<"S", "T", "M", "T", " ", "x", ".", "o", "u", "t", "e", "r", "(", ")">>) =>
          fieldValue(prog'.objects, <<"y">>, <<"f">>) = 5]_varlist

\* C24: in a method body a "set f = e" on a field of the method's own
\* instance is seen by a later read of f in the same body: "x.twice();",
\* whose body is "set f = f - 1;" twice, lowers x.f by 2.
C24_SetInMethodIsReadBack ==
    [][(src = MethodScript /\ AtCall /\ CurAct = <<"S", "T", "M", "T", " ", "x", ".", "t", "w", "i", "c", "e", "(", ")">>) =>
          fieldValue(prog'.objects, <<"x">>, <<"f">>) = fieldValue(prog.objects, <<"x">>, <<"f">>) - 2]_varlist

\* the body of the method of the call about to run holds a goto or an if
JumpsInBody ==
    \E i \in DOMAIN CallClass.methods[CallAt.method] :
        \/ StartsAt(CallClass.methods[CallAt.method][i], 1, <<"S", "T", "M", "T", " ", "g", "o", "t", "o">>)
        \/ StartsAt(CallClass.methods[CallAt.method][i], 1, <<"S", "T", "M", "T", " ", "i", "f", "(">>)

\* C25: a goto, or an if that takes its target, in a method body never
\* changes the caller's current node: after the call the calling node
\* goes on with the action that follows the call statement.
C25_MethodJumpLeavesCallerInPlace ==
    [][(Dispatches /\ JumpsInBody) =>
          /\ phase' = "run"
          /\ current' = current
          /\ at' = "acts"
          /\ pc' = pc + 1]_varlist

\* "x.jump();", whose body holds an if that holds, an if with an else and
\* a goto, returned: node Start is about to run the statement after it
C25_Witness ==
    /\ src = MethodScript
    /\ AtAction
    /\ current = <<"S", "t", "a", "r", "t">>
    /\ pc > 1
    /\ prog.nodes[current].actions[pc - 1] = <<"S", "T", "M", "T", " ", "x", ".", "j", "u", "m", "p", "(", ")">>
    /\ CurAct = <<"S", "T", "M", "T", " ", "x", ".", "t", "w", "o", "(", "1", ")">>

\* C26: an "end" executed in a method body ends the whole run, as it does
\* in a node body: after "x.stop();", whose body starts with "end;", the
\* run has stopped with END and nothing more of the method was written.
C26_EndInMethodEndsRun ==
    [][(src = MethodScript /\ AtCall /\ CurAct = <<"S", "T", "M", "T", " ", "x", ".", "s", "t", "o", "p", "(", ")">>) =>
          /\ phase' = "done"
          /\ halt' = "END"
          /\ cout' = <<<<"[", "D", "i", "a", "l", "o", "g", "u", "e", " ", "e", "n", "d", "e", "d", "]">>>>]_varlist

\* the value a name has in the scope of the method of the call about to
\* run when no argument is bound to it: the global of that name, else the
\* field of the instance, else nothing (read as 0)
UnboundValue(name) ==
    At(prog.vars, name, fieldValue(prog.objects, CallAt.inst, name))

\* the value the i-th parameter of the method of the call about to run
\* has in the body: the i-th argument when there is one
ParamValue(i) ==
    IF i <= Len(CallArgs) THEN CallArgs[i] ELSE UnboundValue(CallParams[i])

\* what "print(e);" writes for the value of e
PrintedBool(v) == IF v # 0 THEN sTrue ELSE sFalse

\* C27: a call with k arguments of a method with m parameters binds the
\* first min(k, m) parameters, in order, to the first min(k, m) arguments,
\* over a global of the same name; further arguments are dropped, further
\* parameters are not bound, nothing is reported and the run goes on:
\* "x.two(...)", whose body prints its parameters a and q, prints each
\* argument that has a parameter and, for a parameter without argument,
\* the global of its name.
C27_ParametersBoundPositionally ==
    [][(src = MethodScript /\ Dispatches /\ CallAt.method = <<"t", "w", "o">>) =>
          /\ cout' = <<PrintedBool(ParamValue(1)), PrintedBool(ParamValue(2))>>
          /\ cerr' = <<>>
          /\ phase' = "run"
          /\ pc' = pc + 1]_varlist

\* "x.two(1, 1, 1);" has run after "x.two(1);" and "x.two(0, 1);": three
\* arguments for two parameters printed true twice
C27_Witness ==
    /\ src = MethodScript
    /\ AtAction
    /\ pc > 1
    /\ prog.nodes[current].actions[pc - 1] = <<"S", "T", "M", "T", " ", "x", ".", "t", "w", "o", "(", "1", ",", "1", ",", "1", ")">>
    /\ cout = <<sTrue, sTrue>>
    /\ cerr = <<>>

\* C28: the node statement "new C z;", C a declared class, puts object z
\* with C's default fields in the object table and records z as an
\* instance of C: so it is after the statement that follows "x.two();"
\* in node Start has run.
C28_InlineNewCreatesInstance ==
    [][(/\ src = MethodScript
        /\ AtAction
        /\ current = <<"S", "t", "a", "r", "t">>
        /\ pc > 1
        /\ prog.nodes[current].actions[pc - 1] = <<"S", "T", "M", "T", " ", "x", ".", "t", "w", "o", "(", ")">>) =>
          /\ At(prog'.objects, <<"z">>, EmptyMap) = prog.classes[<<"C">>].fields
          /\ At(prog'.instanceClass, <<"z">>, <<>>) = <<"C">>]_varlist

\* ----------------------------------------------------------------------
\* Properties of rendering and of identifiers
\* ----------------------------------------------------------------------

\* C29: a show action writes the line the node-text renderer writes for
\* the same text in the same state: "[@You]" replaced by the player name
\* and each marker replaced by the same value.
C29_ShowRendersAsNodeText ==
    [][(AtAction /\ StartsAt(CurAct, 1, <<"S", "H", "O", "W", " ">>)) =>
          cout' = <<nodeTextFrom(replaceYou(From(CurAct, 6), 1), 1,
                                 vars, boolVars, prog.objects)>>]_varlist

\* the text is one identifier: letters and digits after a letter, and
\* neither "true" nor "false"
BareIdentifier(e) ==
    /\ e # <<>>
    /\ e[1] \in Alpha
    /\ Range(e) \subseteq Alnum
    /\ e \notin {sTrue, sFalse}

\* the expression of the "SET" action about to run
SetExpr == NameAndExpr(From(CurAct, 5)).expr

\* C30: a bare identifier in an expression is the boolean variable of
\* that name, true as 1 and false as 0, whenever the boolean table holds
\* the name, even if an integer of that name exists; otherwise the
\* integer variable of that name; otherwise 0: a "set" of an integer from
\* a bare identifier stores that value.
C30_BareIdentifierResolution ==
    [][(/\ UndottedSet
        /\ BareIdentifier(SetExpr)
        /\ NameAndExpr(From(CurAct, 5)).name \notin DOMAIN boolVars) =>
          vars'[NameAndExpr(From(CurAct, 5)).name] =
              IF SetExpr \in DOMAIN boolVars THEN B2I(boolVars[SetExpr])
              ELSE IF SetExpr \in DOMAIN vars THEN vars[SetExpr]
              ELSE 0]_varlist

\* "set r = k;" has run with k both the integer 5 and the boolean true:
\* r is 1
C30_Witness ==
    /\ src = RenderScript
    /\ AtAction
    /\ pc > 1
    /\ prog.nodes[current].actions[pc - 1] = <<"S", "E", "T", " ", "r", " ", "k">>
    /\ At(vars, <<"k">>, 0) = 5
    /\ At(boolVars, <<"k">>, FALSE)
    /\ At(vars, <<"r">>, 0) = 1

\* ----------------------------------------------------------------------
\* Properties of the tables
\* ----------------------------------------------------------------------

\* no two of the three sets of names share a name
Disjoint3(a, b, c) == a \cap b = {} /\ a \cap c = {} /\ b \cap c = {}

\* C31: after parsing and after any run-time actions, no name is a key of
\* more than one of the integer, string and boolean variable tables.
C31_VariableTablesDisjoint ==
    /\ Disjoint3(DOMAIN prog.vars, DOMAIN prog.stringVars, DOMAIN prog.boolVars)
    /\ phase \in {"run", "done"} =>
           Disjoint3(DOMAIN vars, DOMAIN prog.stringVars, DOMAIN boolVars)

\* C32: in every reachable state each entry of the object table is an
\* instance of exactly one declared class: its name is a key of the
\* instance-to-class table and the class recorded there is in the class table.
C32_ObjectsAreInstances ==
    \A o \in DOMAIN prog.objects :
        /\ o \in DOMAIN prog.instanceClass
        /\ prog.instanceClass[o] \in DOMAIN prog.classes

\* C33: no run-time action (set, signal, if, goto, show, raw statement,
\* method call) changes the class table or the node table: every step of
\* a run leaves the declared classes (field defaults, methods, parameters)
\* and the nodes (text, choices, action lists) as loading left them.
C33_ClassesAndNodesKeepLoadTimeValues ==
    [][phase = "run" =>
          /\ prog'.classes = prog.classes
          /\ prog'.nodes = prog.nodes]_varlist

\* node Start of the method script has run to its goto: eleven method
\* calls and three shows later, node Other is entered and class C still
\* declares f = 1 and its eight methods
C33_Witness ==
    /\ src = MethodScript
    /\ phase = "run"
    /\ current = <<"O", "t", "h", "e", "r">>
    /\ prog.classes[<<"C">>].fields = Put(EmptyMap, <<"f">>, 1)
    /\ Cardinality(DOMAIN prog.classes[<<"C">>].methods) = 8
    /\ Len(prog.nodes[<<"S", "t", "a", "r", "t">>].actions) = 16

\* the action about to run only evaluates: a signal, an if, or a raw
\* statement that is no method call (a print or an ignored statement)
OnlyEvaluates ==
    /\ AtAction
    /\ ~Throws(CurAct)
    /\ \/ StartsAt(CurAct, 1, <<"S", "I", "G", "N", "A", "L", " ">>)
       \/ StartsAt(CurAct, 1, <<"I", "F", " ">>)
       \/ /\ StartsAt(CurAct, 1, <<"S", "T", "M", "T", " ">>)
          /\ ~DecodeCall(StmtOf(CurAct)).isCall
          /\ ~StartsAt(StmtOf(CurAct), 1, <<"n", "e", "w", " ">>)

\* the name a SET action about to run assigns, split at its dot
SetTarget == splitDot(NameAndExpr(From(CurAct, 5)).name)

\* C34: evaluating an expression (the right-hand side of set, a signal
\* value, an if condition, a method argument, a print argument) never
\* changes the integer, boolean or object tables: a signal, an if and a
\* print leave the three tables as they are, and a set and a method call
\* create no name but the one assigned and no object but the one assigned
\* or called, so names and dotted references that are absent are read as 0
\* without being created.
C34_EvaluationChangesNothing ==
    [][/\ OnlyEvaluates => UNCHANGED <<prog, vars, boolVars>>
       /\ (AtAction /\ ~Throws(CurAct) /\ StartsAt(CurAct, 1, <<"S", "E", "T", " ">>)) =>
              /\ DOMAIN vars' \subseteq DOMAIN vars \cup {NameAndExpr(From(CurAct, 5)).name}
              /\ DOMAIN boolVars' = DOMAIN boolVars
              /\ DOMAIN prog'.objects \subseteq DOMAIN prog.objects \cup {SetTarget.first}
              /\ \A o \in DOMAIN prog.objects :
                     DOMAIN prog'.objects[o] \subseteq DOMAIN prog.objects[o] \cup {SetTarget.second}
       /\ AtCall =>
              /\ UNCHANGED <<vars, boolVars>>
              /\ DOMAIN prog'.vars = DOMAIN prog.vars
              /\ DOMAIN prog'.boolVars = DOMAIN prog.boolVars
              /\ DOMAIN prog'.objects \subseteq DOMAIN prog.objects \cup {CallAt.inst}]_varlist

\* "signal ping = nope + ghost.hp;" has run and printed false, and the if
\* on "nope > ghost.hp" after it has run and not jumped: no variable ping
\* or nope and no object ghost exists
C34_Witness ==
    /\ src = TableScript
    /\ AtAction
    /\ current = <<"S", "t", "a", "r", "t">>
    /\ pc = 3
    /\ prog.nodes[current].actions[1] = <<"S", "I", "G", "N", "A", "L", " ", "p", "i", "n", "g", " ", "n", "o", "p", "e", "+", "g", "h", "o", "s", "t", ".", "h", "p">>
    /\ {<<"p", "i", "n", "g">>, <<"n", "o", "p", "e">>} \cap (DOMAIN vars \cup DOMAIN boolVars) = {}
    /\ <<"g", "h", "o", "s", "t">> \notin DOMAIN prog.objects
    /\ vars = prog.vars

\* ----------------------------------------------------------------------
\* Properties of print, of declarations, of the parser and of dispatch
\* ----------------------------------------------------------------------

\* the action about to run is a raw statement that starts with "print("
AtPrint ==
    /\ AtAction
    /\ ~Throws(CurAct)
    /\ StartsAt(CurAct, 1, <<"S", "T", "M", "T", " ">>)
    /\ StartsAt(StmtOf(CurAct), 1, <<"p", "r", "i", "n", "t", "(">>)

\* what stands between the first "(" and the last ")" of the print
\* statement about to run
PrintInner ==
    SubSeq(StmtOf(CurAct), Find(StmtOf(CurAct), <<"(">>, 1) + 1,
           RFindChar(StmtOf(CurAct), ")") - 1)

\* C35: a node-body statement print("text") writes the literal text to
\* output, and print(expr) with a non-string argument writes the value of
\* expr evaluated in the current state: in node Start of the table script
\* print("hello") writes hello, and every print of an expression writes
\* the decimal value of the expression.
C35_PrintWritesTextOrValue ==
    [][AtPrint =>
          /\ (src = TableScript /\ current = <<"S", "t", "a", "r", "t">> /\ pc = 3) =>
                 cout' = <<<<"h", "e", "l", "l", "o">>>>
          /\ ~(src = TableScript /\ current = <<"S", "t", "a", "r", "t">> /\ pc = 3) =>
                 cout' = <<to_string(evalExpressionString(PrintInner, vars, boolVars,
                                                          prog.objects))>>]_varlist

\* the texts of the tokens of src from position p to the next ";" (or to
\* the end of the text), joined
RECURSIVE TextToSemicolon(_, _)
TextToSemicolon(p, acc) ==
    LET r == LexNext(src, p) IN
    IF r.tok.kind = "EOF" \/ SymTok(r.tok, <<";">>) THEN acc
    ELSE TextToSemicolon(r.p, acc \o r.tok.text)

\* the parser stands at "int name = ..." (the two tokens after int) and
\* gets through the declaration
AtIntInitialiser ==
    /\ phase = "parse"
    /\ ~ParseOverflows
    /\ IdentTok(tk, <<"i", "n", "t">>)
    /\ LexN(src, lexer, 2)[1].tok.kind = "IDENT"
    /\ SymTok(LexN(src, lexer, 2)[2].tok, <<"=">>)

\* C36: a top-level "int x = <expr>;" the parser gets through stores the
\* value of expr evaluated at the point of the declaration against the
\* variables declared earlier in the source: a name declared only later
\* reads as 0, and a later redeclaration of a name used in expr does not
\* change x. In the table
\* script a = b + 1 is 1 (b comes later), c = b + a is 5 (b is 4 then),
\* and c stays 5 when b is declared again as 7.
C36_InitialiserEvaluatedAtDeclaration ==
    /\ [][AtIntInitialiser =>
             prog'.vars = Put(prog.vars, LexN(src, lexer, 2)[1].tok.text,
                              evalExpressionString(
                                  TextToSemicolon(LexN(src, lexer, 2)[2].p, <<>>),
                                  prog.vars, prog.boolVars, EmptyMap))]_varlist
    /\ []((src = TableScript /\ <<"c">> \in DOMAIN prog.vars) =>
             /\ prog.vars[<<"a">>] = 1
             /\ prog.vars[<<"c">>] = 5
             /\ prog.vars[<<"b">>] \in {4, 7})
    /\ []((src = TableScript /\ phase # "parse") =>
             /\ prog.vars = Put(Put(Put(EmptyMap, <<"a">>, 1), <<"b">>, 7), <<"c">>, 5)
             /\ vars[<<"c">>] = 5)

\* the table script is parsed and runs: b was declared after a read it,
\* c read b at 4 and a at 1, and b was declared again with 7
C36_Witness ==
    /\ src = TableScript
    /\ phase = "run"
    /\ vars[<<"a">>] = 1
    /\ vars[<<"b">>] = 7
    /\ vars[<<"c">>] = 5

\* C37: for every finite source text the parser terminates: the lexer's
\* cursor never moves backwards and never passes the end of the text,
\* every call of next() on unconsumed input advances it, end-of-input is
\* returned on every call once reached, every iteration of the top-level
\* loop (with the class-body, parameter-list, method-body, node-body and
\* room-body loops it runs) consumes at least one token, and so the parse
\* is left only by the loop reaching end-of-input, for the run to start.
C37_ParserTerminates ==
    /\ [](lexer <= Len(src) + 1)
    /\ [][lexer' >= lexer]_varlist
    /\ [](phase = "parse" =>
             \A p \in lexer..Len(src) :
                 /\ LexNext(src, p).p > p
                 /\ LexNext(src, p).p <= Len(src) + 1)
    /\ [](tk.kind = "EOF" =>
             /\ LexNext(src, lexer).tok.kind = "EOF"
             /\ LexNext(src, lexer).p = lexer)
    /\ [][(phase = "parse" /\ phase' = "parse") =>
             (lexer' > lexer \/ tk'.kind = "EOF")]_varlist
    /\ [][(phase = "parse" /\ phase' # "parse") =>
             (tk.kind = "EOF" /\ phase' = "run")]_varlist

\* C38: every method dispatch returns control to the calling action list
\* after finitely many steps, also when the body of the method holds a
\* call on its own instance, on its own method, or on another instance
\* whose method calls back: a call that finds its instance, class and
\* method leaves the run going, at the next action of the same list.
C38_DispatchReturns ==
    [][Dispatches =>
          /\ phase' = "run"
          /\ halt' = ""
          /\ current' = current
          /\ pc' = pc + 1]_varlist



====
